---------------------------- MODULE Spec2Model ----------------------------
(***************************************************************************)
(* The BBS04 short group signature of aniagut/msc-bbs: KeyGen, Sign,       *)
(* Verify and Open over a Type-3 pairing.                                  *)
(*                                                                         *)
(* The curve library (circl bls12381) is modelled by a cyclic group of     *)
(* prime order Order: an element of G1, G2 or GT is written as its         *)
(* exponent to the group's generator, so that the group law is addition    *)
(* of exponents, ScalarMult is multiplication, and the pairing of g1^a and *)
(* g2^b is gt^(a*b).  The program's group order is the 255-bit prime of    *)
(* BLS12-381; the model runs the same code over a small prime order.       *)
(*                                                                         *)
(* crypto/rand is an input of the program: every RandomScalar call may     *)
(* return any scalar of 1..Order-1.  SHA-256 is a fixed function of the    *)
(* bytes it is given whose values the model does not compute: the variable *)
(* sha holds the digests (reduced mod Order) of the byte strings hashed so *)
(* far, and a byte string hashed for the first time may get any value.     *)
(***************************************************************************)
EXTENDS Integers, Sequences, FiniteSets, TLC

\* The order p of G1, G2, GT and of the scalar field (e.Order()).
Order == 3

\* KeyGen is called with n in 0..MaxUsers.
MaxUsers == 1

\* The messages signed and verified: byte strings of at most MaxMsgLen bytes.
MaxMsgLen == 1

MsgBytes == {7}

Messages == UNION {[1..k -> MsgBytes] : k \in 0..MaxMsgLen}

---------------------------------------------------------------------------
(* Scalars: e.Scalar, the field Z_p. *)

Scalars == 0..(Order - 1)

\* Z_p^*: what RandomScalar returns.
ZpStar == 1..(Order - 1)

ScalarAdd(a, b) == (a + b) % Order

ScalarMul(a, b) == (a * b) % Order

ScalarNeg(a) == (Order - a) % Order

\* Scalar.Inv: the inverse by Fermat's exponent, so that Inv(0) = 0.
ScalarInv(a) == IF a = 0 THEN 0 ELSE CHOOSE b \in ZpStar : (a * b) % Order = 1

(* Groups: an element is its exponent to the generator. *)

G1 == 0..(Order - 1)

G2 == 0..(Order - 1)

Gt == 0..(Order - 1)

G1Generator == 1

G2Generator == 1

G1Identity == 0

\* z.Add(x, y) on G1 and G2: the group law.
GAdd(x, y) == (x + y) % Order

\* z.Neg(): the group inverse.
GNeg(x) == (Order - x) % Order

\* z.ScalarMult(k, x): x^k.
ScalarMult(k, x) == (k * x) % Order

\* e.Pair(P, Q): the bilinear pairing G1 x G2 -> GT.
Pair(P, Q) == (P * Q) % Order

\* z.Mul(x, y) on GT.
GtMul(x, y) == (x + y) % Order

RECURSIVE ProdPair(_, _, _)
\* e.ProdPair(Ps, Qs, ks): the product of e(Ps[i], Qs[i])^ks[i].
ProdPair(Ps, Qs, ks) ==
    IF Ps = <<>> THEN 0
    ELSE GtMul(ScalarMult(ks[1], Pair(Ps[1], Qs[1])),
               ProdPair(Tail(Ps), Tail(Qs), Tail(ks)))

---------------------------------------------------------------------------
(* utils: serialization and hashing. *)

\* An encoding of G1 whose length varies: the identity is encoded by no byte.
SerializeG1Short(g) == IF g = G1Identity THEN <<>> ELSE <<g>>

\* g.Bytes(): the fixed-length compressed encoding of a G1 element.
SerializeG1(g) == <<g>>

\* g.MarshalBinary(): the fixed-length encoding of a GT element.
SerializeGt(g) == <<g>>

\* []byte(s)
SerializeString(s) == s

RECURSIVE ConcatReversed(_)
\* The inputs written last to first.
ConcatReversed(inputs) ==
    IF inputs = <<>> THEN <<>> ELSE ConcatReversed(Tail(inputs)) \o Head(inputs)

RECURSIVE Concat(_)
\* hash.Write(input) for each input in order: the bytes SHA-256 digests.
Concat(inputs) ==
    IF inputs = <<>> THEN <<>> ELSE Head(inputs) \o Concat(Tail(inputs))

---------------------------------------------------------------------------
(* keygen *)

\* ComputeUAndV with 1/epsilon1 as the exponent of v too.
ComputeUAndVOneInverse(g1, h, epsilon1, epsilon2) ==
    LET invEpsilon1 == ScalarInv(epsilon1)
    IN  [u |-> ScalarMult(invEpsilon1, h), v |-> ScalarMult(invEpsilon1, h)]

\* u = h^(1/epsilon1), v = h^(1/epsilon2); g1 is not used.
ComputeUAndV(g1, h, epsilon1, epsilon2) ==
    LET invEpsilon1 == ScalarInv(epsilon1)
        invEpsilon2 == ScalarInv(epsilon2)
    IN  [u |-> ScalarMult(invEpsilon1, h), v |-> ScalarMult(invEpsilon2, h)]

\* w = g2^gamma
ComputeW(g2, gamma) == ScalarMult(gamma, g2)

\* Ai = g1^(1/(gamma + xI)); gamma + xI is not tested for zero.
ComputeAi(g1, gamma, xI) ==
    LET gammaPlusX == ScalarAdd(gamma, xI)
    IN  ScalarMult(ScalarInv(gammaPlusX), g1)

\* The users slice when no RandomScalar call fails: worker i draws xs[i]
\* and writes slot i.
ComputeSDHTuples(n, g1, gamma, xs) ==
    [i \in 1..n |-> [A |-> ComputeAi(g1, gamma, xs[i]), X |-> xs[i]]]

\* KeyGen(n) when the random source gives h, epsilon1, epsilon2, gamma, xs.
KeyGen(n, h, epsilon1, epsilon2, gamma, xs) ==
    LET g1 == G1Generator
        g2 == G2Generator
        uv == ComputeUAndV(g1, h, epsilon1, epsilon2)
        w  == ComputeW(g2, gamma)
        users == ComputeSDHTuples(n, g1, gamma, xs)
    IN  [PublicKey |-> [G1 |-> g1, G2 |-> g2, H |-> h, U |-> uv.u, V |-> uv.v, W |-> w],
         SecretManagerKey |-> [Epsilon1 |-> epsilon1, Epsilon2 |-> epsilon2],
         Users |-> users]

---------------------------------------------------------------------------
(* sign *)

ComputeDeltas(alpha, beta, xI) ==
    [delta1 |-> ScalarMul(alpha, xI), delta2 |-> ScalarMul(beta, xI)]

\* T3 = A_i * h^(alpha + beta)
ComputeT3(alpha, beta, h, aI) ==
    LET alphaPlusBeta == ScalarAdd(alpha, beta)
        hAlphaBeta == ScalarMult(alphaPlusBeta, h)
    IN  GAdd(hAlphaBeta, aI)

\* ComputeTValues with beta as the exponent of T1 too.
ComputeTValuesBeta(alpha, beta, h, u, v, aI) ==
    [T1 |-> ScalarMult(beta, u),
     T2 |-> ScalarMult(beta, v),
     T3 |-> ComputeT3(alpha, beta, h, aI)]

\* ComputeTValues with T3 = h^(alpha + beta), the credential left out.
ComputeTValuesNoCredential(alpha, beta, h, u, v, aI) ==
    [T1 |-> ScalarMult(alpha, u),
     T2 |-> ScalarMult(beta, v),
     T3 |-> ScalarMult(ScalarAdd(alpha, beta), h)]

\* T1 = u^alpha, T2 = v^beta, T3
ComputeTValues(alpha, beta, h, u, v, aI) ==
    [T1 |-> ScalarMult(alpha, u),
     T2 |-> ScalarMult(beta, v),
     T3 |-> ComputeT3(alpha, beta, h, aI)]

\* R3 = e(T3, g2)^rX * e(h, w)^-(rAlpha + rBeta) * e(h, g2)^-(rDelta1 + rDelta2)
ComputeR3(T3, g2, h, w, rX, rAlpha, rBeta, rDelta1, rDelta2) ==
    LET rAlphaBeta == ScalarNeg(ScalarAdd(rAlpha, rBeta))
        rDelta == ScalarNeg(ScalarAdd(rDelta1, rDelta2))
    IN  ProdPair(<<T3, h, h>>, <<g2, w, g2>>, <<rX, rAlphaBeta, rDelta>>)

\* ComputeR3 as three pairings multiplied in GT (the earlier implementation):
\* e(T3^rX, g2) * e(h^-(rAlpha+rBeta), w) * e(h^-(rDelta1+rDelta2), g2).
ComputeR3ThreePairings(T3, g2, h, w, rX, rAlpha, rBeta, rDelta1, rDelta2) ==
    LET T3RX == ScalarMult(rX, T3)
        pair1 == Pair(T3RX, g2)
        rAlphaBeta == ScalarNeg(ScalarAdd(rAlpha, rBeta))
        hRAlphaBeta == ScalarMult(rAlphaBeta, h)
        pair2 == Pair(hRAlphaBeta, w)
        rDelta == ScalarNeg(ScalarAdd(rDelta1, rDelta2))
        hRDelta == ScalarMult(rDelta, h)
        pair3 == Pair(hRDelta, g2)
    IN  GtMul(GtMul(pair1, pair2), pair3)

\* R4 = T1^rX * u^(-rDelta1)
ComputeR4(T1, u, rX, rDelta1) ==
    LET T1rX == ScalarMult(rX, T1)
        minusRDelta1 == ScalarNeg(rDelta1)
        uRDelta1 == ScalarMult(minusRDelta1, u)
    IN  GAdd(T1rX, uRDelta1)

\* R5 = T2^rX * v^(-rDelta2)
ComputeR5(T2, v, rX, rDelta2) ==
    LET T2rX == ScalarMult(rX, T2)
        minusRDelta2 == ScalarNeg(rDelta2)
        vRDelta2 == ScalarMult(minusRDelta2, v)
    IN  GAdd(T2rX, vRDelta2)

ComputeRValues(rAlpha, rBeta, rX, rDelta1, rDelta2, T1, T2, T3, h, u, v, w, g2) ==
    [R1 |-> ScalarMult(rAlpha, u),
     R2 |-> ScalarMult(rBeta, v),
     R3 |-> ComputeR3(T3, g2, h, w, rX, rAlpha, rBeta, rDelta1, rDelta2),
     R4 |-> ComputeR4(T1, u, rX, rDelta1),
     R5 |-> ComputeR5(T2, v, rX, rDelta2)]

\* ComputeSValues with delta1 in the place of delta2 in sDelta2.
ComputeSValuesDelta1Twice(alpha, beta, xI, delta1, delta2, rAlpha, rBeta, rX, rDelta1, rDelta2, c) ==
    [sAlpha  |-> ScalarAdd(ScalarMul(alpha, c), rAlpha),
     sBeta   |-> ScalarAdd(ScalarMul(beta, c), rBeta),
     sX      |-> ScalarAdd(ScalarMul(xI, c), rX),
     sDelta1 |-> ScalarAdd(ScalarMul(delta1, c), rDelta1),
     sDelta2 |-> ScalarAdd(ScalarMul(delta1, c), rDelta2)]

ComputeSValues(alpha, beta, xI, delta1, delta2, rAlpha, rBeta, rX, rDelta1, rDelta2, c) ==
    [sAlpha  |-> ScalarAdd(ScalarMul(alpha, c), rAlpha),
     sBeta   |-> ScalarAdd(ScalarMul(beta, c), rBeta),
     sX      |-> ScalarAdd(ScalarMul(xI, c), rX),
     sDelta1 |-> ScalarAdd(ScalarMul(delta1, c), rDelta1),
     sDelta2 |-> ScalarAdd(ScalarMul(delta2, c), rDelta2)]

\* The transcript without the message.
TranscriptNoMessage(m, T1, T2, T3, R) ==
    Concat(<<SerializeG1(T1), SerializeG1(T2), SerializeG1(T3),
             SerializeG1(R.R1), SerializeG1(R.R2), SerializeGt(R.R3),
             SerializeG1(R.R4), SerializeG1(R.R5)>>)

\* The transcript without T3.
TranscriptNoT3(m, T1, T2, T3, R) ==
    Concat(<<SerializeString(m), SerializeG1(T1), SerializeG1(T2),
             SerializeG1(R.R1), SerializeG1(R.R2), SerializeGt(R.R3),
             SerializeG1(R.R4), SerializeG1(R.R5)>>)

\* The transcript without R3.
TranscriptNoR3(m, T1, T2, T3, R) ==
    Concat(<<SerializeString(m), SerializeG1(T1), SerializeG1(T2), SerializeG1(T3),
             SerializeG1(R.R1), SerializeG1(R.R2),
             SerializeG1(R.R4), SerializeG1(R.R5)>>)

\* The bytes Sign and Verify hash: m, T1, T2, T3, R1, R2, R3, R4, R5 in order.
Transcript(m, T1, T2, T3, R) ==
    Concat(<<SerializeString(m), SerializeG1(T1), SerializeG1(T2), SerializeG1(T3),
             SerializeG1(R.R1), SerializeG1(R.R2), SerializeGt(R.R3),
             SerializeG1(R.R4), SerializeG1(R.R5)>>)

\* Sign, steps 4 and 5 and the argument of step 6: the bytes hashed when
\* the random source gives alpha, beta and scalars.
SignTranscript(publicKey, userPrivateKey, m, alpha, beta, scalars) ==
    LET T == ComputeTValues(alpha, beta, publicKey.H, publicKey.U, publicKey.V,
                            userPrivateKey.A)
        R == ComputeRValues(scalars[1], scalars[2], scalars[3], scalars[4], scalars[5],
                            T.T1, T.T2, T.T3, publicKey.H, publicKey.U, publicKey.V,
                            publicKey.W, publicKey.G2)
    IN  Transcript(m, T.T1, T.T2, T.T3, R)

\* Sign when the random source gives alpha, beta and scalars and
\* HashToScalar returns c.
Sign(publicKey, userPrivateKey, m, alpha, beta, scalars, c) ==
    LET d == ComputeDeltas(alpha, beta, userPrivateKey.X)
        T == ComputeTValues(alpha, beta, publicKey.H, publicKey.U, publicKey.V,
                            userPrivateKey.A)
        s == ComputeSValues(alpha, beta, userPrivateKey.X, d.delta1, d.delta2,
                            scalars[1], scalars[2], scalars[3], scalars[4], scalars[5], c)
    IN  [T1 |-> T.T1, T2 |-> T.T2, T3 |-> T.T3, C |-> c,
         SAlpha |-> s.sAlpha, SBeta |-> s.sBeta, SX |-> s.sX,
         SDelta1 |-> s.sDelta1, SDelta2 |-> s.sDelta2]

---------------------------------------------------------------------------
(* verify *)

\* R1 = u^sAlpha * T1^(-c)
computeR1(SAlpha, u, C, T1) ==
    LET minusC == ScalarNeg(C)
        T1MinusC == ScalarMult(minusC, T1)
    IN  GAdd(ScalarMult(SAlpha, u), T1MinusC)

\* R2 = v^sBeta * T2^(-c)
computeR2(SBeta, v, C, T2) ==
    LET minusC == ScalarNeg(C)
        T2MinusC == ScalarMult(minusC, T2)
    IN  GAdd(ScalarMult(SBeta, v), T2MinusC)

\* computeR3 with the signs of c exchanged: c on (g1,g2), -c on (T3,w).
computeR3SignsOfCSwapped(T3, g1, g2, SX, h, w, SAlpha, SBeta, SDelta1, SDelta2, C) ==
    LET sAlphaBeta == ScalarNeg(ScalarAdd(SAlpha, SBeta))
        sDelta == ScalarNeg(ScalarAdd(SDelta1, SDelta2))
        minusC == ScalarNeg(C)
    IN  ProdPair(<<T3, h, h, g1, T3>>, <<g2, w, g2, g2, w>>,
                 <<SX, sAlphaBeta, sDelta, C, minusC>>)

\* R3 = e(T3,g2)^sX * e(h,w)^-(sAlpha+sBeta) * e(h,g2)^-(sDelta1+sDelta2)
\*      * e(g1,g2)^-c * e(T3,w)^c
computeR3(T3, g1, g2, SX, h, w, SAlpha, SBeta, SDelta1, SDelta2, C) ==
    LET sAlphaBeta == ScalarNeg(ScalarAdd(SAlpha, SBeta))
        sDelta == ScalarNeg(ScalarAdd(SDelta1, SDelta2))
        minusC == ScalarNeg(C)
    IN  ProdPair(<<T3, h, h, g1, T3>>, <<g2, w, g2, g2, w>>,
                 <<SX, sAlphaBeta, sDelta, minusC, C>>)

\* The five pairings without the last one, e(T3^c, w).
computeR3FourPairings(T3, g1, g2, SX, h, w, SAlpha, SBeta, SDelta1, SDelta2, C) ==
    LET pair1 == Pair(ScalarMult(SX, T3), g2)
        pair2 == Pair(ScalarMult(ScalarNeg(ScalarAdd(SAlpha, SBeta)), h), w)
        pair3 == Pair(ScalarMult(ScalarNeg(ScalarAdd(SDelta1, SDelta2)), h), g2)
        pair4 == Pair(ScalarMult(ScalarNeg(C), g1), g2)
    IN  GtMul(GtMul(GtMul(pair1, pair2), pair3), pair4)

\* computeR3 as five pairings multiplied in GT (the earlier implementation):
\* e(T3^sX, g2) * e(h^-(sAlpha+sBeta), w) * e(h^-(sDelta1+sDelta2), g2)
\* * e(g1^-c, g2) * e(T3^c, w).
computeR3FivePairings(T3, g1, g2, SX, h, w, SAlpha, SBeta, SDelta1, SDelta2, C) ==
    LET T3SX == ScalarMult(SX, T3)
        pair1 == Pair(T3SX, g2)
        sAlphaBeta == ScalarNeg(ScalarAdd(SAlpha, SBeta))
        hSAlphaBeta == ScalarMult(sAlphaBeta, h)
        pair2 == Pair(hSAlphaBeta, w)
        sDelta == ScalarNeg(ScalarAdd(SDelta1, SDelta2))
        hSDelta == ScalarMult(sDelta, h)
        pair3 == Pair(hSDelta, g2)
        minusC == ScalarNeg(C)
        g1MinusC == ScalarMult(minusC, g1)
        pair4 == Pair(g1MinusC, g2)
        T3C == ScalarMult(C, T3)
        pair5 == Pair(T3C, w)
    IN  GtMul(GtMul(GtMul(GtMul(pair1, pair2), pair3), pair4), pair5)

\* R4 = T1^sX * u^(-sDelta1)
computeR4(SX, T1, u, SDelta1) ==
    LET T1SX == ScalarMult(SX, T1)
        minusSDelta1 == ScalarNeg(SDelta1)
        uSDelta1 == ScalarMult(minusSDelta1, u)
    IN  GAdd(T1SX, uSDelta1)

\* R5 = T2^sX * v^(-sDelta2)
computeR5(SX, T2, v, SDelta2) ==
    LET T2SX == ScalarMult(SX, T2)
        minusSDelta2 == ScalarNeg(SDelta2)
        vSDelta2 == ScalarMult(minusSDelta2, v)
    IN  GAdd(T2SX, vSDelta2)

\* The R values Verify recomputes.
VerifyRValues(publicKey, signature) ==
    [R1 |-> computeR1(signature.SAlpha, publicKey.U, signature.C, signature.T1),
     R2 |-> computeR2(signature.SBeta, publicKey.V, signature.C, signature.T2),
     R3 |-> computeR3(signature.T3, publicKey.G1, publicKey.G2, signature.SX,
                      publicKey.H, publicKey.W, signature.SAlpha, signature.SBeta,
                      signature.SDelta1, signature.SDelta2, signature.C),
     R4 |-> computeR4(signature.SX, signature.T1, publicKey.U, signature.SDelta1),
     R5 |-> computeR5(signature.SX, signature.T2, publicKey.V, signature.SDelta2)]

\* The bytes Verify hashes.
VerifyTranscript(publicKey, M, signature) ==
    Transcript(M, signature.T1, signature.T2, signature.T3,
               VerifyRValues(publicKey, signature))

\* c.IsEqual(&C) == 1
verifySignature(c, C) == c = C

\* Verify with a test of its own on T1, T2 and T3: a signature with the
\* identity among them is rejected.
VerifyRejectsIdentity(publicKey, M, signature, c) ==
    /\ signature.T1 # G1Identity
    /\ signature.T2 # G1Identity
    /\ signature.T3 # G1Identity
    /\ verifySignature(c, signature.C)

\* Verify when HashToScalar returns c: the bool it returns (its error is nil).
Verify(publicKey, M, signature, c) == verifySignature(c, signature.C)

---------------------------------------------------------------------------
(* open *)

\* RecoverUserPrivateKey without sum.Neg(): T3 * (T1^epsilon1 * T2^epsilon2).
RecoverUserPrivateKeyNoNeg(secretManagerKey, signature) ==
    LET T1Epsilon1 == ScalarMult(secretManagerKey.Epsilon1, signature.T1)
        T2Epsilon2 == ScalarMult(secretManagerKey.Epsilon2, signature.T2)
        sum == GAdd(T1Epsilon1, T2Epsilon2)
    IN  GAdd(signature.T3, sum)

\* A = T3 * (T1^epsilon1 * T2^epsilon2)^-1
RecoverUserPrivateKey(secretManagerKey, signature) ==
    LET T1Epsilon1 == ScalarMult(secretManagerKey.Epsilon1, signature.T1)
        T2Epsilon2 == ScalarMult(secretManagerKey.Epsilon2, signature.T2)
        sum == GNeg(GAdd(T1Epsilon1, T2Epsilon2))
    IN  GAdd(signature.T3, sum)

ErrVerificationFailed == "signature verification failed"

ErrNoMatchingUser == "no matching user found for the recovered public key"

ErrNil == "nil"

\* The error Verify returns when HashToScalar returns c: HashToScalar's
\* error, which is nil, since a Write to a SHA-256 hash does not fail.
VerifyErr(publicKey, M, signature, c) == ErrNil

\* The indices (0-based, as the code returns them) whose A is the recovered A.
Matches(recoveredA, users) == {i \in 1..Len(users) : users[i].A = recoveredA}

\* Open without the return on an invalid signature.
OpenWithoutVerify(publicKey, secretManagerKey, m, signature, users, isValid) ==
    LET recoveredA == RecoverUserPrivateKey(secretManagerKey, signature)
        found == Matches(recoveredA, users)
    IN  IF found # {}
        THEN [index |-> (CHOOSE i \in found : \A j \in found : i <= j) - 1, err |-> ErrNil]
        ELSE [index |-> -1, err |-> ErrNoMatchingUser]

\* Open returning -1 and a nil error when no user matches.
OpenNilError(publicKey, secretManagerKey, m, signature, users, isValid) ==
    IF ~isValid
    THEN [index |-> -1, err |-> ErrVerificationFailed]
    ELSE LET recoveredA == RecoverUserPrivateKey(secretManagerKey, signature)
             found == Matches(recoveredA, users)
         IN  IF found # {}
             THEN [index |-> (CHOOSE i \in found : \A j \in found : i <= j) - 1, err |-> ErrNil]
             ELSE [index |-> -1, err |-> ErrNil]

\* Open returning the last index whose A is the recovered A.
OpenLastMatch(publicKey, secretManagerKey, m, signature, users, isValid) ==
    IF ~isValid
    THEN [index |-> -1, err |-> ErrVerificationFailed]
    ELSE LET recoveredA == RecoverUserPrivateKey(secretManagerKey, signature)
             found == Matches(recoveredA, users)
         IN  IF found # {}
             THEN [index |-> (CHOOSE i \in found : \A j \in found : i >= j) - 1, err |-> ErrNil]
             ELSE [index |-> -1, err |-> ErrNoMatchingUser]

\* Open when its call of Verify returns isValid: the index and the error.
Open(publicKey, secretManagerKey, m, signature, users, isValid) ==
    IF ~isValid
    THEN [index |-> -1, err |-> ErrVerificationFailed]
    ELSE LET recoveredA == RecoverUserPrivateKey(secretManagerKey, signature)
             found == Matches(recoveredA, users)
         IN  IF found # {}
             THEN [index |-> (CHOOSE i \in found : \A j \in found : i <= j) - 1,
                   err |-> ErrNil]
             ELSE [index |-> -1, err |-> ErrNoMatchingUser]


---------------------------------------------------------------------------
(* The program as a state machine: one KeyGen, then calls of Sign, Verify  *)
(* and Open.  Verify and Open are pure: a call changes nothing but the     *)
(* record of what was hashed, and the model keeps the call's arguments and *)
(* results in vcall and ocall.                                             *)

VARIABLES
    pc,      \* "start", "keyed" (KeyGen returned), "signed" (Sign returned),
             \* "resigned" (a second Sign returned)
    key,     \* the KeyGenResult
    signer,  \* the index i of the users[i] given to Sign
    msg,     \* the message given to Sign
    sig,     \* the Signature Sign returned
    rnd,     \* what the random source gave that call of Sign
    first,   \* the signature and the alpha of an earlier Sign call for the same
             \* user and message
    sha,     \* the values of HashToScalar on the byte strings hashed so far
    vcall,   \* a call of Verify: its arguments and its result
    ocall,   \* a call of Open: its arguments and its results
    kpc,     \* where a step-by-step run of KeyGen stands
    kloc,    \* KeyGen's locals: n, h, e1, e2, y
    uslice,  \* ComputeSDHTuples: the slice users
    wpc,     \* ComputeSDHTuples: where each goroutine stands
    wx,      \* ComputeSDHTuples: each goroutine's xI
    errChan, \* ComputeSDHTuples: the errors buffered in errChan
    wg,      \* ComputeSDHTuples: the WaitGroup's counter
    rcall,   \* the last call of RandomScalar: its draws and its result, and
             \* how many reads of the random source have failed so far
    tret,    \* what ComputeSDHTuples returned
    kret,    \* the n KeyGen was given and what it returned
    sret,    \* what a call of Sign returned when the random source may fail
    hfirst,  \* a call of HashToScalar: its inputs and its result
    hcall,   \* a later call of HashToScalar
    ncall,   \* a call of Sign, Verify or Open with a nil pointer among its
             \* arguments, and its outcome
    pcall,   \* a call of one of the helper functions of Sign and Verify: its
             \* name, its arguments and what it returned
    frame,   \* the calls of Sign, Verify and Open run on the heap: for each,
             \* what its arguments pointed to before and after it, and
             \* what it returned
    cred     \* the credential given to Sign when it is not one of key.Users

\* The variables of the step-by-step run of KeyGen.
kgvars == <<kpc, kloc, uslice, wpc, wx, errChan, wg, rcall, tret, kret>>

\* The variables of the calls of Sign with a failing random source, of
\* HashToScalar and of the calls with nil arguments.
\* The variables of the calls of the helper functions.
auxvars == <<pcall, frame, cred>>

callvars == <<sret, hfirst, hcall, ncall, auxvars>>

vars == <<pc, key, signer, msg, sig, rnd, first, sha, vcall, ocall, kgvars, callvars>>

\* The value of a record variable before the call that sets it.
None == [none |-> TRUE]

\* A hash whose digest is not reduced mod Order.
HashToScalarUnreduced(bytes, c) ==
    /\ c \in Nat
    /\ bytes \in DOMAIN sha => c = sha[bytes]

\* HashToScalar(inputs...) may return c: the digest mod Order of bytes, a
\* value in Z_p that is fixed once the bytes have been hashed.
HashToScalar(bytes, c) ==
    /\ c \in Scalars
    /\ bytes \in DOMAIN sha => c = sha[bytes]

\* A hash that keeps no value: each call may return another scalar.
HashedNothing(bytes, c) == sha

\* sha once HashToScalar has returned c on bytes.
Hashed(bytes, c) ==
    [b \in DOMAIN sha \cup {bytes} |-> IF b = bytes THEN c ELSE sha[b]]

\* generateRandomScalars(5): all the vectors of five scalars of Z_p^*.
AllNonces == [1..5 -> ZpStar]

\* The vectors <<a, b, a, b, a>> with a # b: the draws of the runs that go
\* on to present changed inputs to Verify and Open.
FewNonces == {s \in AllNonces : s[1] # s[2] /\ s[3] = s[1] /\ s[5] = s[1] /\ s[4] = s[2]}

\* The fields of models.Signature.
SigFields == {"T1", "T2", "T3", "C", "SAlpha", "SBeta", "SX", "SDelta1", "SDelta2"}

\* A changed field is replaced by its value plus d, d in 1..MaxTamper.
MaxTamper == 1

\* signature with field f replaced by another value of its type.
Tampered(signature, f, d) == [signature EXCEPT ![f] = (@ + d) % Order]

\* The users lists given to Open: the KeyGen result's, that list without
\* one of its entries, and the empty list.
Without(users, j) == [i \in 1..(Len(users) - 1) |-> IF i < j THEN users[i] ELSE users[i + 1]]

OpenLists(users) == {users, <<>>} \cup {Without(users, j) : j \in 1..Len(users)}

Init ==
    /\ pc = "start"
    /\ key = None
    /\ signer = 0
    /\ msg = <<>>
    /\ sig = None
    /\ rnd = None
    /\ first = None
    /\ sha = <<>>
    /\ vcall = None
    /\ ocall = None
    /\ kpc = "idle"
    /\ kloc = None
    /\ uslice = <<>>
    /\ wpc = <<>>
    /\ wx = <<>>
    /\ errChan = <<>>
    /\ wg = 0
    /\ rcall = [draws |-> <<>>, result |-> None, fails |-> 0]
    /\ tret = None
    /\ kret = None
    /\ sret = None
    /\ hfirst = None
    /\ hcall = None
    /\ ncall = None
    /\ pcall = None
    /\ frame = <<>>
    /\ cred = None

\* result, err := keygen.KeyGen(n)
DoKeyGen ==
    /\ pc = "start"
    /\ \E n \in 0..MaxUsers, h \in G1, epsilon1 \in ZpStar, epsilon2 \in ZpStar,
          gamma \in ZpStar :
         \E xs \in [1..n -> ZpStar] :
            key' = KeyGen(n, h, epsilon1, epsilon2, gamma, xs)
    /\ pc' = "keyed"
    /\ UNCHANGED <<signer, msg, sig, rnd, first, sha, vcall, ocall, kgvars, callvars>>

\* signature, err := sign.Sign(result.PublicKey, result.Users[i], m), its
\* five nonces drawn from nonces.
SignCall(i, m, nonces) ==
    \E alpha \in ZpStar, beta \in ZpStar, scalars \in nonces, c \in Scalars :
       LET bytes == SignTranscript(key.PublicKey, key.Users[i], m, alpha, beta, scalars)
       IN  /\ HashToScalar(bytes, c)
           /\ sha' = Hashed(bytes, c)
           /\ sig' = Sign(key.PublicKey, key.Users[i], m, alpha, beta, scalars, c)
           /\ rnd' = [alpha |-> alpha, beta |-> beta, scalars |-> scalars]
           /\ signer' = i
           /\ msg' = m

DoSign ==
    /\ pc = "keyed"
    /\ \E i \in 1..Len(key.Users), m \in Messages : SignCall(i, m, AllNonces)
    /\ pc' = "signed"
    /\ UNCHANGED <<key, first, vcall, ocall, kgvars, callvars>>

DoSignFew ==
    /\ pc = "keyed"
    /\ \E i \in 1..Len(key.Users), m \in Messages : SignCall(i, m, FewNonces)
    /\ pc' = "signed"
    /\ UNCHANGED <<key, first, vcall, ocall, kgvars, callvars>>

\* A second signature of the same user on the same message.
DoSignAgain ==
    /\ pc = "signed"
    /\ first = None
    /\ vcall = None
    /\ ocall = None
    /\ first' = [signature |-> sig, alpha |-> rnd.alpha]
    /\ SignCall(signer, msg, FewNonces)
    /\ pc' = "resigned"
    /\ UNCHANGED <<key, vcall, ocall, kgvars, callvars>>

\* valid, err := verify.Verify(result.PublicKey, M, signature)
VerifyCall(M, signature) ==
    /\ pc = "signed"
    /\ vcall = None
    /\ ocall = None
    /\ \E c \in Scalars :
         LET bytes == VerifyTranscript(key.PublicKey, M, signature)
         IN  /\ HashToScalar(bytes, c)
             /\ sha' = Hashed(bytes, c)
             /\ vcall' = [M |-> M, signature |-> signature,
                          valid |-> Verify(key.PublicKey, M, signature, c),
                          err |-> VerifyErr(key.PublicKey, M, signature, c)]
    /\ UNCHANGED <<pc, key, signer, msg, sig, rnd, first, ocall, kgvars, callvars>>

\* Verify on the message and the signature of Sign.
DoVerify ==
    /\ pc = "signed"
    /\ VerifyCall(msg, sig)

\* Verify on any message and the signature of Sign.
DoVerifyMessage ==
    /\ pc = "signed"
    /\ \E M \in Messages : VerifyCall(M, sig)

\* Verify on the message of Sign and its signature with one field replaced.
DoVerifyTampered ==
    /\ pc = "signed"
    /\ \E f \in SigFields, d \in 1..MaxTamper : VerifyCall(msg, Tampered(sig, f, d))

\* signerIndex, err := open.Open(result.PublicKey, result.SecretManagerKey,
\*                               m, signature, users)
OpenCall(m, signature, users) ==
    /\ pc = "signed"
    /\ vcall = None
    /\ ocall = None
    /\ \E c \in Scalars :
         LET bytes == VerifyTranscript(key.PublicKey, m, signature)
             isValid == Verify(key.PublicKey, m, signature, c)
             res == Open(key.PublicKey, key.SecretManagerKey, m, signature, users, isValid)
         IN  /\ HashToScalar(bytes, c)
             /\ sha' = Hashed(bytes, c)
             /\ ocall' = [m |-> m, signature |-> signature, users |-> users,
                          isValid |-> isValid, index |-> res.index, err |-> res.err]
    /\ UNCHANGED <<pc, key, signer, msg, sig, rnd, first, vcall, kgvars, callvars>>

\* Open on the message and the signature of Sign, and on the users of KeyGen
\* or another of the users lists.
DoOpen ==
    /\ pc = "signed"
    /\ \E users \in OpenLists(key.Users) : OpenCall(msg, sig, users)

\* Open on any message, the signature of Sign and the users of KeyGen.
DoOpenMessage ==
    /\ pc = "signed"
    /\ \E m \in Messages : OpenCall(m, sig, key.Users)

\* KeyGen, Sign for one of its users with every draw of the random source,
\* then Verify or Open on what Sign was given and returned.
Next == DoKeyGen \/ DoSign \/ DoVerify \/ DoOpen

Spec == Init /\ [][Next]_vars

\* KeyGen, Sign, and then Verify or Open on changed inputs, or a second
\* Sign for the same user and message.
NextAdv ==
    DoKeyGen \/ DoSignFew \/ DoSignAgain \/ DoVerifyMessage \/ DoVerifyTampered
        \/ DoOpenMessage

SpecAdv == Init /\ [][NextAdv]_vars

---------------------------------------------------------------------------
(* KeyGen step by step.  Here the random source may fail and may draw      *)
(* zero, n may be negative, and the goroutines of ComputeSDHTuples take    *)
(* their steps in any order.                                               *)

\* A nil pointer, a nil slice.
Nil == [nil |-> TRUE]

\* The step-by-step KeyGen is given an n of at most MaxWorkers, and
\* ComputeSDHTuples starts that many goroutines.
MaxWorkers == 2

\* In one call of RandomScalar, zero is drawn at most MaxRedraws times.
MaxRedraws == 1

\* crypto/rand: a read that fails.
RandFails == [err |-> TRUE, value |-> 0]

\* rand.Int(rand.Reader, order): a failure, or a value of 0..Order-1.
RandInt == {RandFails} \cup {[err |-> FALSE, value |-> k] : k \in 0..(Order - 1)}

\* What rand.Int gives the calls one call of RandomScalar makes: zero, at
\* most MaxRedraws times, and then a failure or a value that is not zero.
RandDraws ==
    {d \in UNION {[1..k -> RandInt] : k \in 1..(MaxRedraws + 1)} :
        /\ \A j \in 1..(Len(d) - 1) : ~d[j].err /\ d[j].value = 0
        /\ d[Len(d)].err \/ d[Len(d)].value # 0}

\* rand.Read(randomBytes) and h.Hash: a failure, or the point of G1 the
\* bytes read are hashed to.
RandRead == {RandFails} \cup {[err |-> FALSE, value |-> g] : g \in G1}

ErrRandomScalar == "failed to generate random scalar"

ErrRandomG1 == "failed to generate random input for hashing to G1"

ErrXI == "failed to generate random scalar xI for user"

\* A RandomScalar that returns what it draws first, zero included.
RandomScalarNoRedraw(draws) ==
    IF Head(draws).err
    THEN [scalar |-> 0, err |-> ErrRandomScalar]
    ELSE [scalar |-> Head(draws).value, err |-> ErrNil]

\* utils.RandomScalar(), on the values rand.Int gives it and its recursive
\* calls.
RECURSIVE RandomScalar(_)
RandomScalar(draws) ==
    LET bigIntScalar == Head(draws)
    IN  IF bigIntScalar.err
        THEN [scalar |-> 0, err |-> ErrRandomScalar]
        ELSE IF bigIntScalar.value = 0
             THEN RandomScalar(Tail(draws))
             ELSE [scalar |-> bigIntScalar.value % Order, err |-> ErrNil]

\* utils.RandomG1Element(), on what rand.Read and h.Hash give it.
RandomG1Element(read) ==
    IF read.err
    THEN [h |-> 0, err |-> ErrRandomG1]
    ELSE [h |-> read.value, err |-> ErrNil]

\* models.KeyGenResult{}
ZeroKeyGenResult == [zero |-> "models.KeyGenResult{}"]

\* models.User{}
ZeroUser == [zero |-> "models.User{}"]

\* make(chan error, n) without a buffer.
ErrChanUnbuffered(n) == 0

\* errChan := make(chan error, n): the capacity of errChan.
ErrChanCap(n) == n

\* A goroutine that writes the slot of the first user.
FirstSlot(i) == 1

\* go func(i int) { ... users[i] = ... }(i): the slot goroutine i writes.
\* Goroutine i of the code is goroutine i + 1 here, users[i] is uslice[i + 1].
WorkerSlot(i) == i

\* rcall once RandomScalar has returned r on draws.
Called(draws, r) ==
    [draws |-> draws, result |-> r,
     fails |-> IF r.err # ErrNil THEN rcall.fails + 1 ELSE rcall.fails]

\* KeyGen returns: its frame and that of ComputeSDHTuples are gone.
KGReturns(result, err) ==
    /\ kpc' = "returned"
    /\ kret' = [n |-> kloc.n, result |-> result, err |-> err]
    /\ kloc' = None
    /\ uslice' = <<>>
    /\ wpc' = <<>>
    /\ wx' = <<>>
    /\ errChan' = <<>>
    /\ wg' = 0
    /\ tret' = None

\* keygen.KeyGen(n) is called.
KGCall ==
    /\ pc = "start"
    /\ kpc = "idle"
    /\ \E n \in (-1)..MaxWorkers :
         kloc' = [n |-> n, h |-> 0, epsilon1 |-> 0, epsilon2 |-> 0, gamma |-> 0]
    /\ kpc' = "h"
    /\ UNCHANGED <<pc, key, signer, msg, sig, rnd, first, sha, vcall, ocall,
                   uslice, wpc, wx, errChan, wg, rcall, tret, kret, callvars>>

\* h, err := utils.RandomG1Element()
KGRandomH ==
    /\ kpc = "h"
    /\ \E read \in RandRead :
         LET r == RandomG1Element(read)
         IN  IF r.err # ErrNil
             THEN /\ KGReturns(ZeroKeyGenResult, r.err)
                  /\ rcall' = [rcall EXCEPT !.fails = @ + 1]
             ELSE /\ kloc' = [kloc EXCEPT !.h = r.h]
                  /\ kpc' = "epsilon1"
                  /\ UNCHANGED <<uslice, wpc, wx, errChan, wg, rcall, tret, kret>>
    /\ UNCHANGED <<pc, key, signer, msg, sig, rnd, first, sha, vcall, ocall,
                   callvars>>

\* epsilon1, epsilon2, gamma, err := utils.RandomScalar(): the call that
\* sets the local named by at, and goes on to next.
KGRandomScalar(at, next) ==
    /\ kpc = at
    /\ \E draws \in RandDraws :
         LET r == RandomScalar(draws)
         IN  /\ rcall' = Called(draws, r)
             /\ IF r.err # ErrNil
                THEN KGReturns(ZeroKeyGenResult, r.err)
                ELSE /\ kloc' = [kloc EXCEPT ![at] = r.scalar]
                     /\ kpc' = next
                     /\ UNCHANGED <<uslice, wpc, wx, errChan, wg, tret, kret>>
    /\ UNCHANGED <<pc, key, signer, msg, sig, rnd, first, sha, vcall, ocall,
                   callvars>>

KGEpsilon1 == KGRandomScalar("epsilon1", "epsilon2")

KGEpsilon2 == KGRandomScalar("epsilon2", "gamma")

KGGamma == KGRandomScalar("gamma", "make")

\* ComputeSDHTuples: users := make([]models.User, n), which panics when n
\* is negative; var wg sync.WaitGroup; errChan := make(chan error, n).
KGMake ==
    /\ kpc = "make"
    /\ IF kloc.n < 0
       THEN /\ kpc' = "panic"
            /\ UNCHANGED uslice
       ELSE /\ kpc' = "loop"
            /\ uslice' = [j \in 1..kloc.n |-> ZeroUser]
    /\ UNCHANGED <<pc, key, signer, msg, sig, rnd, first, sha, vcall, ocall,
                   kloc, wpc, wx, errChan, wg, rcall, tret, kret, callvars>>

\* for i := 0; i < n; i++ { wg.Add(1); go func(i int) { ... }(i) }
KGSpawn ==
    /\ kpc = "loop"
    /\ Len(wpc) < kloc.n
    /\ wg' = wg + 1
    /\ wpc' = Append(wpc, "draw")
    /\ wx' = Append(wx, 0)
    /\ UNCHANGED <<pc, key, signer, msg, sig, rnd, first, sha, vcall, ocall,
                   kpc, kloc, uslice, errChan, rcall, tret, kret, callvars>>

\* i < n is false: the loop ends.
KGLoopEnd ==
    /\ kpc = "loop"
    /\ Len(wpc) >= kloc.n
    /\ kpc' = "wait"
    /\ UNCHANGED <<pc, key, signer, msg, sig, rnd, first, sha, vcall, ocall,
                   kloc, uslice, wpc, wx, errChan, wg, rcall, tret, kret, callvars>>

\* Goroutine i: xI, err := utils.RandomScalar()
WDraw(i) ==
    /\ wpc[i] = "draw"
    /\ \E draws \in RandDraws :
         LET r == RandomScalar(draws)
         IN  /\ rcall' = Called(draws, r)
             /\ IF r.err # ErrNil
                THEN /\ wpc' = [wpc EXCEPT ![i] = "send"]
                     /\ UNCHANGED wx
                ELSE /\ wpc' = [wpc EXCEPT ![i] = "store"]
                     /\ wx' = [wx EXCEPT ![i] = r.scalar]
    /\ UNCHANGED <<pc, key, signer, msg, sig, rnd, first, sha, vcall, ocall,
                   kpc, kloc, uslice, errChan, wg, tret, kret, callvars>>

\* Goroutine i: errChan <- fmt.Errorf("... for user %d: %w", i, err); return.
\* The send waits while the buffer is full.
WSend(i) ==
    /\ wpc[i] = "send"
    /\ Len(errChan) < ErrChanCap(kloc.n)
    /\ errChan' = Append(errChan, [err |-> ErrXI, user |-> i - 1])
    /\ wpc' = [wpc EXCEPT ![i] = "exit"]
    /\ UNCHANGED <<pc, key, signer, msg, sig, rnd, first, sha, vcall, ocall,
                   kpc, kloc, uslice, wx, wg, rcall, tret, kret, callvars>>

\* Goroutine i: Ai := ComputeAi(g1, gamma, xI); users[i] = models.User{A: &Ai, X: xI}
WStore(i) ==
    /\ wpc[i] = "store"
    /\ uslice' = [uslice EXCEPT ![WorkerSlot(i)] =
                     [A |-> ComputeAi(G1Generator, kloc.gamma, wx[i]), X |-> wx[i]]]
    /\ wpc' = [wpc EXCEPT ![i] = "exit"]
    /\ UNCHANGED <<pc, key, signer, msg, sig, rnd, first, sha, vcall, ocall,
                   kpc, kloc, wx, errChan, wg, rcall, tret, kret, callvars>>

\* Goroutine i returns: defer wg.Done()
WExit(i) ==
    /\ wpc[i] = "exit"
    /\ wg' = wg - 1
    /\ wpc' = [wpc EXCEPT ![i] = "done"]
    /\ UNCHANGED <<pc, key, signer, msg, sig, rnd, first, sha, vcall, ocall,
                   kpc, kloc, uslice, wx, errChan, rcall, tret, kret, callvars>>

\* wg.Wait() returns when the counter is zero; close(errChan).
KGWait ==
    /\ kpc = "wait"
    /\ wg = 0
    /\ kpc' = "range"
    /\ UNCHANGED <<pc, key, signer, msg, sig, rnd, first, sha, vcall, ocall,
                   kloc, uslice, wpc, wx, errChan, wg, rcall, tret, kret, callvars>>

\* for err := range errChan { if err != nil { return nil, err } }
\* return users, nil
KGRange ==
    /\ kpc = "range"
    /\ IF errChan # <<>>
       THEN /\ tret' = [users |-> Nil, err |-> Head(errChan).err]
            /\ errChan' = Tail(errChan)
       ELSE /\ tret' = [users |-> uslice, err |-> ErrNil]
            /\ UNCHANGED errChan
    /\ kpc' = "tuples"
    /\ UNCHANGED <<pc, key, signer, msg, sig, rnd, first, sha, vcall, ocall,
                   kloc, uslice, wpc, wx, wg, rcall, kret, callvars>>

\* users, err := ComputeSDHTuples(n, g1, gamma); if err != nil { return
\* models.KeyGenResult{}, err }; return models.KeyGenResult{...}, nil
KGReturn ==
    /\ kpc = "tuples"
    /\ IF tret.err # ErrNil
       THEN /\ KGReturns(ZeroKeyGenResult, tret.err)
            /\ UNCHANGED <<pc, key>>
       ELSE LET g1 == G1Generator
                g2 == G2Generator
                uv == ComputeUAndV(g1, kloc.h, kloc.epsilon1, kloc.epsilon2)
                w  == ComputeW(g2, kloc.gamma)
                result == [PublicKey |-> [G1 |-> g1, G2 |-> g2, H |-> kloc.h,
                                          U |-> uv.u, V |-> uv.v, W |-> w],
                           SecretManagerKey |-> [Epsilon1 |-> kloc.epsilon1,
                                                 Epsilon2 |-> kloc.epsilon2],
                           Users |-> tret.users]
            IN  /\ KGReturns(result, ErrNil)
                /\ key' = result
                /\ pc' = "keyed"
    /\ UNCHANGED <<signer, msg, sig, rnd, first, sha, vcall, ocall, rcall, callvars>>

\* The steps of the goroutine that calls KeyGen.
Main ==
    \/ KGCall \/ KGRandomH \/ KGEpsilon1 \/ KGEpsilon2 \/ KGGamma
    \/ KGMake \/ KGSpawn \/ KGLoopEnd \/ KGWait \/ KGRange \/ KGReturn

\* The steps of goroutine i of ComputeSDHTuples, once it is started.
Worker(i) ==
    /\ i \in 1..Len(wpc)
    /\ (WDraw(i) \/ WSend(i) \/ WStore(i) \/ WExit(i))

\* The steps of KeyGen and of the goroutines it starts.
NextKeyGen ==
    \/ KGCall \/ KGRandomH \/ KGEpsilon1 \/ KGEpsilon2 \/ KGGamma
    \/ KGMake \/ KGSpawn \/ KGLoopEnd \/ KGWait \/ KGRange \/ KGReturn
    \/ \E i \in 1..Len(wpc) : WDraw(i)
    \/ \E i \in 1..Len(wpc) : WSend(i)
    \/ \E i \in 1..Len(wpc) : WStore(i)
    \/ \E i \in 1..Len(wpc) : WExit(i)

SpecKeyGen == Init /\ [][NextKeyGen]_vars

\* The Go scheduler runs every goroutine that can take a step: the caller
\* of KeyGen and each goroutine ComputeSDHTuples starts.
FairKeyGen ==
    /\ SpecKeyGen
    /\ WF_vars(Main)
    /\ \A i \in 1..MaxWorkers : WF_vars(Worker(i))

---------------------------------------------------------------------------
(* Calls of Sign, Verify and Open in which one pointer among the arguments *)
(* is nil.  The model does not put nil into the argument: it names the nil *)
(* pointer, and the outcome says what the code does when it gets there.    *)

\* The call panics: a nil pointer is dereferenced.
Panic == [panic |-> "invalid memory address or nil pointer dereference"]

\* The pointer fields of models.PublicKey and of models.Signature.
PublicKeyPointers == {"G1", "G2", "H", "U", "V", "W"}

SignaturePointers == {"T1", "T2", "T3", "SAlpha", "SBeta", "SX", "SDelta1", "SDelta2"}

\* The pointer named field of the argument named arg; index tells the entry
\* of users, counted from 1, and is 0 for the other arguments.
NilArg(arg, field, index) == [arg |-> arg, field |-> field, index |-> index]

\* The pointers Sign passes to curve operations: all but publicKey.G1.
SignDereferences ==
    {NilArg("publicKey", f, 0) : f \in {"H", "U", "V", "W", "G2"}}
        \cup {NilArg("userPrivateKey", "A", 0)}

\* The pointers Verify passes to curve operations.
VerifyDereferences ==
    {NilArg("publicKey", f, 0) : f \in PublicKeyPointers}
        \cup {NilArg("signature", f, 0) : f \in SignaturePointers}

\* Sign when the pointer nilarg is nil.
SignNil(publicKey, userPrivateKey, m, alpha, beta, scalars, c, nilarg) ==
    IF nilarg \in SignDereferences
    THEN Panic
    ELSE [signature |-> Sign(publicKey, userPrivateKey, m, alpha, beta, scalars, c),
          err |-> ErrNil]

\* Verify when the pointer nilarg is nil.
VerifyNil(publicKey, M, signature, c, nilarg) ==
    IF nilarg \in VerifyDereferences
    THEN Panic
    ELSE [valid |-> Verify(publicKey, M, signature, c), err |-> ErrNil]

\* Open when the pointer nilarg is nil: Verify comes first, and the loop
\* over users calls recoveredA.IsEqual(user.A) on the entries up to the
\* first match.
OpenNil(publicKey, secretManagerKey, m, signature, users, isValid, nilarg) ==
    IF nilarg.arg # "users"
    THEN IF nilarg \in VerifyDereferences
         THEN Panic
         ELSE Open(publicKey, secretManagerKey, m, signature, users, isValid)
    ELSE IF ~isValid
         THEN Open(publicKey, secretManagerKey, m, signature, users, isValid)
         ELSE LET before == Open(publicKey, secretManagerKey, m, signature,
                                 SubSeq(users, 1, nilarg.index - 1), isValid)
              IN  IF before.err = ErrNil THEN before ELSE Panic

\* sign.Sign(publicKey, users[i], m) with a nil pointer in publicKey or in
\* users[i].
DoSignNil ==
    /\ pc = "keyed"
    /\ \E i \in 1..Len(key.Users), m \in Messages,
          nilarg \in {NilArg("publicKey", f, 0) : f \in PublicKeyPointers}
                        \cup {NilArg("userPrivateKey", "A", 0)},
          alpha \in ZpStar, beta \in ZpStar, scalars \in FewNonces, c \in Scalars :
         LET bytes == SignTranscript(key.PublicKey, key.Users[i], m, alpha, beta, scalars)
             out == SignNil(key.PublicKey, key.Users[i], m, alpha, beta, scalars, c, nilarg)
         IN  /\ ncall' = [op |-> "Sign", nilarg |-> nilarg, outcome |-> out]
             /\ IF out = Panic
                THEN UNCHANGED sha
                ELSE HashToScalar(bytes, c) /\ sha' = Hashed(bytes, c)
    /\ pc' = "nilcall"
    /\ UNCHANGED <<key, signer, msg, sig, rnd, first, vcall, ocall, kgvars,
                   sret, hfirst, hcall, auxvars>>

\* verify.Verify(publicKey, msg, sig) with a nil pointer in publicKey or sig.
DoVerifyNil ==
    /\ pc = "signed"
    /\ \E nilarg \in VerifyDereferences, c \in Scalars :
         LET bytes == VerifyTranscript(key.PublicKey, msg, sig)
             out == VerifyNil(key.PublicKey, msg, sig, c, nilarg)
         IN  /\ ncall' = [op |-> "Verify", nilarg |-> nilarg, outcome |-> out]
             /\ IF out = Panic
                THEN UNCHANGED sha
                ELSE HashToScalar(bytes, c) /\ sha' = Hashed(bytes, c)
    /\ pc' = "nilcall"
    /\ UNCHANGED <<key, signer, msg, sig, rnd, first, vcall, ocall, kgvars,
                   sret, hfirst, hcall, auxvars>>

\* open.Open(publicKey, secretManagerKey, msg, sig, users) with a nil
\* pointer in publicKey, in sig or in an entry of users.
DoOpenNil ==
    /\ pc = "signed"
    /\ \E nilarg \in VerifyDereferences
                        \cup {NilArg("users", "A", j) : j \in 1..Len(key.Users)},
          c \in Scalars :
         LET bytes == VerifyTranscript(key.PublicKey, msg, sig)
             isValid == Verify(key.PublicKey, msg, sig, c)
             out == OpenNil(key.PublicKey, key.SecretManagerKey, msg, sig, key.Users,
                            isValid, nilarg)
         IN  /\ ncall' = [op |-> "Open", nilarg |-> nilarg, outcome |-> out]
             /\ IF nilarg \in VerifyDereferences
                THEN UNCHANGED sha
                ELSE HashToScalar(bytes, c) /\ sha' = Hashed(bytes, c)
    /\ pc' = "nilcall"
    /\ UNCHANGED <<key, signer, msg, sig, rnd, first, vcall, ocall, kgvars,
                   sret, hfirst, hcall, auxvars>>

\* KeyGen, Sign, and then a call with a nil pointer among its arguments.
NextNil == DoKeyGen \/ DoSignFew \/ DoSignNil \/ DoVerifyNil \/ DoOpenNil

SpecNil == Init /\ [][NextNil]_vars

---------------------------------------------------------------------------
(* Sign when the random source may fail.                                   *)

\* models.Signature{}
ZeroSignature == [zero |-> "models.Signature{}"]

\* What rand.Int gives the seven calls of RandomScalar in Sign (alpha, beta
\* and the five of GenerateRandomScalars) when the calls from failAt on
\* fail; failAt = 0: none fails.
SignDrawsOf(alpha, beta, scalars, failAt) ==
    [k \in 1..7 |->
        IF failAt # 0 /\ k >= failAt
        THEN <<RandFails>>
        ELSE <<[err |-> FALSE,
                value |-> IF k = 1 THEN alpha ELSE IF k = 2 THEN beta ELSE scalars[k - 2]]>>]

SignDraws ==
    {SignDrawsOf(alpha, beta, scalars, failAt) :
        alpha \in ZpStar, beta \in ZpStar, scalars \in FewNonces, failAt \in 0..7}

\* A Sign that goes on with the zero scalar when RandomScalar fails.
SignRandomGoesOn(publicKey, userPrivateKey, m, draws, c) ==
    LET r == [k \in 1..7 |-> RandomScalar(draws[k])]
    IN  [signature |-> Sign(publicKey, userPrivateKey, m, r[1].scalar, r[2].scalar,
                            [k \in 1..5 |-> r[k + 2].scalar], c),
         err |-> ErrNil]

\* sign.Sign(publicKey, userPrivateKey, m) on what rand.Int gives its calls
\* of RandomScalar: the first call that fails ends Sign.
SignRandom(publicKey, userPrivateKey, m, draws, c) ==
    LET r == [k \in 1..7 |-> RandomScalar(draws[k])]
        failed == {k \in 1..7 : r[k].err # ErrNil}
    IN  IF failed # {}
        THEN [signature |-> ZeroSignature,
              err |-> r[CHOOSE k \in failed : \A j \in failed : k <= j].err]
        ELSE [signature |-> Sign(publicKey, userPrivateKey, m, r[1].scalar, r[2].scalar,
                                 [k \in 1..5 |-> r[k + 2].scalar], c),
              err |-> ErrNil]

\* Does a read of the random source fail in draws?
Fails(draws) == \E k \in 1..Len(draws) : \E j \in 1..Len(draws[k]) : draws[k][j].err

\* signature, err := sign.Sign(key.PublicKey, key.Users[i], m)
DoSignRandom ==
    /\ pc = "keyed"
    /\ \E i \in 1..Len(key.Users), m \in Messages, draws \in SignDraws, c \in Scalars :
         LET out == SignRandom(key.PublicKey, key.Users[i], m, draws, c)
         IN  /\ sret' = [draws |-> draws, signature |-> out.signature, err |-> out.err]
             /\ signer' = i
             /\ msg' = m
             /\ IF Fails(draws)
                THEN /\ rcall' = [rcall EXCEPT !.fails = @ + 1]
                     /\ UNCHANGED sha
                ELSE LET bytes == SignTranscript(key.PublicKey, key.Users[i], m,
                                                 draws[1][1].value, draws[2][1].value,
                                                 [k \in 1..5 |-> draws[k + 2][1].value])
                     IN  /\ HashToScalar(bytes, c)
                         /\ sha' = Hashed(bytes, c)
                         /\ UNCHANGED rcall
    /\ pc' = "signed"
    /\ UNCHANGED <<key, sig, rnd, first, vcall, ocall, kpc, kloc, uslice, wpc, wx,
                   errChan, wg, tret, kret, hfirst, hcall, ncall, auxvars>>

\* KeyGen step by step, then Sign, with a random source that may fail.
NextRandom ==
    \/ KGCall \/ KGRandomH \/ KGEpsilon1 \/ KGEpsilon2 \/ KGGamma
    \/ KGMake \/ KGSpawn \/ KGLoopEnd \/ KGWait \/ KGRange \/ KGReturn
    \/ \E i \in 1..Len(wpc) : WDraw(i)
    \/ \E i \in 1..Len(wpc) : WSend(i)
    \/ \E i \in 1..Len(wpc) : WStore(i)
    \/ \E i \in 1..Len(wpc) : WExit(i)
    \/ DoSignRandom

SpecRandom == Init /\ [][NextRandom]_vars

---------------------------------------------------------------------------
(* Calls of HashToScalar on lists of byte strings.                         *)

\* The bytes of the inputs.
InputBytes == {7, 8}

\* A call has at most MaxInputs inputs, of at most MaxBytes bytes together.
MaxInputs == 2

MaxBytes == 2

\* SHA-256 digests, as numbers: 0..MaxDigest, more than one group order.
MaxDigest == 5

Digests == 0..MaxDigest

\* The byte strings of at most n bytes.
ByteStrings(n) == UNION {[1..k -> InputBytes] : k \in 0..n}

RECURSIVE TotalLen(_)
\* The number of bytes hash.Write is given in all.
TotalLen(inputs) ==
    IF inputs = <<>> THEN 0 ELSE Len(Head(inputs)) + TotalLen(Tail(inputs))

\* inputs ...[]byte
HashInputs ==
    {inputs \in UNION {[1..k -> ByteStrings(MaxBytes)] : k \in 0..MaxInputs} :
        TotalLen(inputs) <= MaxBytes}

\* c, err := utils.HashToScalar(inputs...): c is the digest of the bytes
\* written, reduced mod Order.
HashCall(inputs, c) ==
    LET bytes == Concat(inputs)
    IN  /\ HashToScalar(bytes, c)
        /\ sha' = Hashed(bytes, c)

\* A call of HashToScalar.
DoHash ==
    /\ pc = "start"
    /\ kpc = "idle"
    /\ hfirst = None
    /\ \E inputs \in HashInputs, c \in Digests :
         /\ HashCall(inputs, c)
         /\ hfirst' = [inputs |-> inputs, c |-> c]
    /\ UNCHANGED <<pc, key, signer, msg, sig, rnd, first, vcall, ocall, kgvars,
                   sret, hcall, ncall, auxvars>>

\* A later call of HashToScalar.
DoHashAgain ==
    /\ hfirst # None
    /\ hcall = None
    /\ \E inputs \in HashInputs, c \in Digests :
         /\ HashCall(inputs, c)
         /\ hcall' = [inputs |-> inputs, c |-> c]
    /\ UNCHANGED <<pc, key, signer, msg, sig, rnd, first, vcall, ocall, kgvars,
                   sret, hfirst, ncall, auxvars>>

NextHash == DoHash \/ DoHashAgain

SpecHash == Init /\ [][NextHash]_vars


---------------------------------------------------------------------------
(* Open on users lists that hold a credential more than once.              *)

\* The users lists given to Open hold at most MaxListLen entries.
MaxListLen == 3

\* A credential whose A is not the signer's.
OtherUser(user) == [A |-> GAdd(user.A, G1Generator), X |-> user.X]

\* The users lists of at most MaxListLen entries, each entry the signer's
\* credential or another one: the signer's credential may be absent, or
\* present more than once.
RepeatingLists(user) ==
    UNION {[1..k -> {user, OtherUser(user)}] : k \in 0..MaxListLen}

\* Open on the message and the signature of Sign, and on a users list in
\* which credentials repeat.
DoOpenRepeating ==
    /\ pc = "signed"
    /\ \E users \in RepeatingLists(key.Users[signer]) : OpenCall(msg, sig, users)

\* KeyGen, Sign, and Open with a users list in which credentials repeat.
NextOpen == DoKeyGen \/ DoSignFew \/ DoOpenRepeating

SpecOpen == Init /\ [][NextOpen]_vars

---------------------------------------------------------------------------
(* Sign with any credential: Sign takes a models.User and does not test    *)
(* that KeyGen issued it.                                                  *)

\* The values a models.User can hold.
Credentials == [A : G1, X : ZpStar]

\* signature, err := sign.Sign(result.PublicKey, userPrivateKey, m)
DoSignCredential ==
    /\ pc = "keyed"
    /\ \E userPrivateKey \in Credentials, m \in Messages, alpha \in ZpStar, beta \in ZpStar,
          scalars \in FewNonces, c \in Scalars :
         LET bytes == SignTranscript(key.PublicKey, userPrivateKey, m, alpha, beta, scalars)
         IN  /\ HashToScalar(bytes, c)
             /\ sha' = Hashed(bytes, c)
             /\ sig' = Sign(key.PublicKey, userPrivateKey, m, alpha, beta, scalars, c)
             /\ rnd' = [alpha |-> alpha, beta |-> beta, scalars |-> scalars]
             /\ cred' = userPrivateKey
             /\ msg' = m
    /\ pc' = "signed"
    /\ UNCHANGED <<key, signer, first, vcall, ocall, kgvars, sret, hfirst, hcall, ncall,
                   pcall, frame>>

\* KeyGen, Sign with any credential, Verify.
NextCredential == DoKeyGen \/ DoSignCredential \/ DoVerify

SpecCredential == Init /\ [][NextCredential]_vars

---------------------------------------------------------------------------
(* The helper functions of Sign and Verify, called on their own as the     *)
(* tests of the sign and verify packages call them, on every input.        *)

\* R3 := computeR3(T3, g1, g2, SX, h, w, SAlpha, SBeta, SDelta1, SDelta2, C)
\* of the verify package, in its two implementations, on the same inputs.
DoComputeR3Verify ==
    /\ pc = "start"
    /\ kpc = "idle"
    /\ \E T3 \in G1, g1 \in G1, g2 \in G2, h \in G1, w \in G2 :
         \E SX \in Scalars, SAlpha \in Scalars, SBeta \in Scalars, SDelta1 \in Scalars,
            SDelta2 \in Scalars, C \in Scalars :
            pcall' = [fn |-> "computeR3",
                      args |-> <<T3, g1, g2, SX, h, w, SAlpha, SBeta, SDelta1, SDelta2, C>>,
                      ret |-> computeR3(T3, g1, g2, SX, h, w, SAlpha, SBeta, SDelta1,
                                        SDelta2, C),
                      pairings |-> computeR3FivePairings(T3, g1, g2, SX, h, w, SAlpha,
                                                         SBeta, SDelta1, SDelta2, C)]
    /\ pc' = "called"
    /\ UNCHANGED <<key, signer, msg, sig, rnd, first, sha, vcall, ocall, kgvars,
                   sret, hfirst, hcall, ncall, frame, cred>>

\* R3 := ComputeR3(T3, g2, h, w, rX, rAlpha, rBeta, rDelta1, rDelta2) of the
\* sign package, in its two implementations, on the same inputs.
DoComputeR3Sign ==
    /\ pc = "start"
    /\ kpc = "idle"
    /\ \E T3 \in G1, g2 \in G2, h \in G1, w \in G2 :
         \E rX \in Scalars, rAlpha \in Scalars, rBeta \in Scalars, rDelta1 \in Scalars,
            rDelta2 \in Scalars :
            pcall' = [fn |-> "ComputeR3",
                      args |-> <<T3, g2, h, w, rX, rAlpha, rBeta, rDelta1, rDelta2>>,
                      ret |-> ComputeR3(T3, g2, h, w, rX, rAlpha, rBeta, rDelta1, rDelta2),
                      pairings |-> ComputeR3ThreePairings(T3, g2, h, w, rX, rAlpha, rBeta,
                                                          rDelta1, rDelta2)]
    /\ pc' = "called"
    /\ UNCHANGED <<key, signer, msg, sig, rnd, first, sha, vcall, ocall, kgvars,
                   sret, hfirst, hcall, ncall, frame, cred>>

\* sAlpha, sBeta, sX, sDelta1, sDelta2 := ComputeSValues(alpha, beta, xI,
\*     delta1, delta2, rAlpha, rBeta, rX, rDelta1, rDelta2, c) on any
\* scalars, and, as Sign calls it, on the delta1 and delta2 that
\* ComputeDeltas(alpha, beta, xI) returns.
DoComputeSValues ==
    /\ pc = "start"
    /\ kpc = "idle"
    /\ \E alpha \in Scalars, beta \in Scalars, xI \in Scalars, delta1 \in Scalars,
          delta2 \in Scalars, c \in Scalars :
         \E rAlpha \in Scalars, rBeta \in Scalars, rX \in Scalars, rDelta1 \in Scalars,
            rDelta2 \in Scalars :
            LET d == ComputeDeltas(alpha, beta, xI)
            IN  pcall' = [fn |-> "ComputeSValues",
                          args |-> <<alpha, beta, xI, delta1, delta2, rAlpha, rBeta, rX,
                                     rDelta1, rDelta2, c>>,
                          ret |-> ComputeSValues(alpha, beta, xI, delta1, delta2, rAlpha,
                                                 rBeta, rX, rDelta1, rDelta2, c),
                          deltas |-> d,
                          inSign |-> ComputeSValues(alpha, beta, xI, d.delta1, d.delta2,
                                                    rAlpha, rBeta, rX, rDelta1, rDelta2, c)]
    /\ pc' = "called"
    /\ UNCHANGED <<key, signer, msg, sig, rnd, first, sha, vcall, ocall, kgvars,
                   sret, hfirst, hcall, ncall, frame, cred>>

\* T1, T2, T3 := ComputeTValues(alpha, beta, h, u, v, aI)
DoComputeTValues ==
    /\ pc = "start"
    /\ kpc = "idle"
    /\ \E alpha \in Scalars, beta \in Scalars, h \in G1, u \in G1, v \in G1, aI \in G1 :
         pcall' = [fn |-> "ComputeTValues",
                   args |-> <<alpha, beta, h, u, v, aI>>,
                   ret |-> ComputeTValues(alpha, beta, h, u, v, aI)]
    /\ pc' = "called"
    /\ UNCHANGED <<key, signer, msg, sig, rnd, first, sha, vcall, ocall, kgvars,
                   sret, hfirst, hcall, ncall, frame, cred>>

\* The messages whose bytes are message bytes or bytes that occur in the
\* encodings of group elements.
TranscriptMessages ==
    UNION {[1..k -> MsgBytes \cup {G1Identity, G1Generator}] : k \in 0..MaxMsgLen}

\* The argument Sign and Verify give HashToScalar, for any message and any
\* T1, T2, T3, R1, R2, R3, R4, R5.
DoTranscript ==
    /\ pc = "start"
    /\ kpc = "idle"
    /\ \E m \in TranscriptMessages, T1 \in G1, T2 \in G1, T3 \in G1 :
         \E R \in [R1 : G1, R2 : G1, R3 : Gt, R4 : G1, R5 : G1] :
            pcall' = [fn |-> "Transcript",
                      args |-> <<m, T1, T2, T3, R>>,
                      ret |-> Transcript(m, T1, T2, T3, R)]
    /\ pc' = "called"
    /\ UNCHANGED <<key, signer, msg, sig, rnd, first, sha, vcall, ocall, kgvars,
                   sret, hfirst, hcall, ncall, frame, cred>>

\* One call of a helper function.
NextHelper ==
    DoComputeR3Verify \/ DoComputeR3Sign \/ DoComputeSValues \/ DoComputeTValues
        \/ DoTranscript

SpecHelper == Init /\ [][NextHelper]_vars

---------------------------------------------------------------------------
(* Sign, Verify and Open on a heap.  The fields T1, T2, T3, SAlpha, ...    *)
(* of a Signature, the fields of a PublicKey and the A of a User are       *)
(* pointers: the callee receives copies of the structs and shares what     *)
(* the pointers point to with its caller.  A heap gives the value each     *)
(* pointer points to; a pointer is a pair <<region, name>>, the region     *)
(* being an argument of the caller or "local" for what the callee          *)
(* allocates with new(...).  Scalars passed by value (e.Scalar) are values *)
(* of the callee.                                                          *)

Pointer(region, name) == <<region, name>>

\* The pointer held by a variable that was assigned new(e.G1), new(e.Scalar)
\* or the result of a call that allocates its result; also the address &x of
\* a variable x of the callee that holds a scalar (a parameter passed by
\* value, or a copy made by :=).
New(name) == <<"local", name>>

\* *p
Deref(heap, p) == heap[p[1]][p[2]]

\* A write through p.
Store(heap, p, value) ==
    [heap EXCEPT ![p[1]] = [q \in DOMAIN @ \cup {p[2]} |-> IF q = p[2] THEN value ELSE @[q]]]

\* What the caller still reaches once the call has returned.
Caller(heap) == [heap EXCEPT !.local = <<>>]

\* One statement <<to, op, from>>: to.op(from...) writes through the pointer
\* to what op makes of the values the pointers of from point to.  "Value" is
\* the binding of a scalar passed by value, "Set" is to.Set(from) and the
\* copy to := *from, "Neg" and "G1Neg" are to.Neg().
Exec(heap, stmt) ==
    LET to == stmt[1]
        op == stmt[2]
        from == stmt[3]
        arg(k) == Deref(heap, from[k])
        args(ps) == [k \in 1..Len(ps) |-> Deref(heap, ps[k])]
    IN  Store(heap, to,
              CASE op = "Value" -> from
                [] op = "Set" -> arg(1)
                [] op = "Neg" -> ScalarNeg(Deref(heap, to))
                [] op = "G1Neg" -> GNeg(Deref(heap, to))
                [] op = "Add" -> ScalarAdd(arg(1), arg(2))
                [] op = "Mul" -> ScalarMul(arg(1), arg(2))
                [] op = "G1Add" -> GAdd(arg(1), arg(2))
                [] op = "ScalarMult" -> ScalarMult(arg(1), arg(2))
                [] op = "ProdPair" -> ProdPair(args(from[1]), args(from[2]), args(from[3])))

\* The heap after the statements of prog, in order (each heap is computed
\* once, then the next statement runs on it).
RECURSIVE Run(_, _)
Run(heap, prog) ==
    IF Len(prog) = 0
    THEN heap
    ELSE CHOOSE next \in {Run(Exec(h, Head(p)), Tail(p)) : h \in {heap}, p \in {prog}} : TRUE

\* computeR4 as the first implementation of Verify computed it:
\* minus_s_delta1 := signature.S_delta1 copies the pointer, and Neg() negates
\* the caller's scalar in place.
computeR4InPlace(SX, T1, u, SDelta1) ==
    <<  <<New("T1SX"), "ScalarMult", <<SX, T1>>>>,
        <<SDelta1, "Neg", <<>>>>,
        <<New("uSDelta1"), "ScalarMult", <<SDelta1, u>>>>,
        <<New("R4"), "G1Add", <<New("T1SX"), New("uSDelta1")>>>>  >>

\* The statements of computeR1(SAlpha, u, C, T1), C being the scalar passed
\* by value.
computeR1OnHeap(SAlpha, u, C, T1) ==
    <<  <<New("C"), "Value", C>>,
        <<New("R1"), "ScalarMult", <<SAlpha, u>>>>,
        <<New("minusC"), "Set", <<New("C")>>>>,
        <<New("minusC"), "Neg", <<>>>>,
        <<New("T1MinusC"), "ScalarMult", <<New("minusC"), T1>>>>,
        <<New("R1"), "G1Add", <<New("R1"), New("T1MinusC")>>>>  >>

computeR2OnHeap(SBeta, v, C, T2) ==
    <<  <<New("C"), "Value", C>>,
        <<New("R2"), "ScalarMult", <<SBeta, v>>>>,
        <<New("minusC"), "Set", <<New("C")>>>>,
        <<New("minusC"), "Neg", <<>>>>,
        <<New("T2MinusC"), "ScalarMult", <<New("minusC"), T2>>>>,
        <<New("R2"), "G1Add", <<New("R2"), New("T2MinusC")>>>>  >>

computeR3OnHeap(T3, g1, g2, SX, h, w, SAlpha, SBeta, SDelta1, SDelta2, C) ==
    <<  <<New("C"), "Value", C>>,
        <<New("sAlphaBeta"), "Add", <<SAlpha, SBeta>>>>,
        <<New("sAlphaBeta"), "Neg", <<>>>>,
        <<New("sDelta"), "Add", <<SDelta1, SDelta2>>>>,
        <<New("sDelta"), "Neg", <<>>>>,
        <<New("minusC"), "Set", <<New("C")>>>>,
        <<New("minusC"), "Neg", <<>>>>,
        <<New("R3"), "ProdPair",
          << <<T3, h, h, g1, T3>>,
             <<g2, w, g2, g2, w>>,
             <<SX, New("sAlphaBeta"), New("sDelta"), New("minusC"), New("C")>> >> >>  >>

computeR4OnHeap(SX, T1, u, SDelta1) ==
    <<  <<New("T1SX"), "ScalarMult", <<SX, T1>>>>,
        <<New("minusSDelta1"), "Set", <<SDelta1>>>>,
        <<New("minusSDelta1"), "Neg", <<>>>>,
        <<New("uSDelta1"), "ScalarMult", <<New("minusSDelta1"), u>>>>,
        <<New("R4"), "G1Add", <<New("T1SX"), New("uSDelta1")>>>>  >>

computeR5OnHeap(SX, T2, v, SDelta2) ==
    <<  <<New("T2SX"), "ScalarMult", <<SX, T2>>>>,
        <<New("minusSDelta2"), "Set", <<SDelta2>>>>,
        <<New("minusSDelta2"), "Neg", <<>>>>,
        <<New("vSDelta2"), "ScalarMult", <<New("minusSDelta2"), v>>>>,
        <<New("R5"), "G1Add", <<New("T2SX"), New("vSDelta2")>>>>  >>

\* Verify up to its call of HashToScalar.  The struct signature is Verify's
\* copy, so signature.C is a scalar of Verify's.
VerifyOnHeap(C) ==
    computeR1OnHeap(Pointer("signature", "SAlpha"), Pointer("publicKey", "U"), C,
                    Pointer("signature", "T1"))
    \o computeR2OnHeap(Pointer("signature", "SBeta"), Pointer("publicKey", "V"), C,
                       Pointer("signature", "T2"))
    \o computeR3OnHeap(Pointer("signature", "T3"), Pointer("publicKey", "G1"),
                       Pointer("publicKey", "G2"), Pointer("signature", "SX"),
                       Pointer("publicKey", "H"), Pointer("publicKey", "W"),
                       Pointer("signature", "SAlpha"), Pointer("signature", "SBeta"),
                       Pointer("signature", "SDelta1"), Pointer("signature", "SDelta2"), C)
    \o computeR4OnHeap(Pointer("signature", "SX"), Pointer("signature", "T1"),
                       Pointer("publicKey", "U"), Pointer("signature", "SDelta1"))
    \o computeR5OnHeap(Pointer("signature", "SX"), Pointer("signature", "T2"),
                       Pointer("publicKey", "V"), Pointer("signature", "SDelta2"))

\* The bytes Sign and Verify hash, read from the heap.
TranscriptOnHeap(heap, M, T1, T2, T3) ==
    Transcript(M, Deref(heap, T1), Deref(heap, T2), Deref(heap, T3),
               [R1 |-> heap.local.R1, R2 |-> heap.local.R2, R3 |-> heap.local.R3,
                R4 |-> heap.local.R4, R5 |-> heap.local.R5])

\* RecoverUserPrivateKey: secretManagerKey is the callee's copy of the
\* struct, and &secretManagerKey.Epsilon1 an address in it.
RecoverOnHeap(secretManagerKey) ==
    <<  <<New("Epsilon1"), "Value", secretManagerKey.Epsilon1>>,
        <<New("Epsilon2"), "Value", secretManagerKey.Epsilon2>>,
        <<New("T1Epsilon1"), "ScalarMult", <<New("Epsilon1"), Pointer("signature", "T1")>>>>,
        <<New("T2Epsilon2"), "ScalarMult", <<New("Epsilon2"), Pointer("signature", "T2")>>>>,
        <<New("sum"), "G1Add", <<New("T1Epsilon1"), New("T2Epsilon2")>>>>,
        <<New("sum"), "G1Neg", <<>>>>,
        <<New("recoveredA"), "G1Add", <<Pointer("signature", "T3"), New("sum")>>>>  >>

\* Open's loop: for i, user := range users reads each entry; IsEqual writes
\* nothing.
OpenOnHeap(heap, isValid) ==
    IF ~isValid
    THEN [index |-> -1, err |-> ErrVerificationFailed]
    ELSE LET found == Matches(heap.local.recoveredA, heap.users)
         IN  IF found # {}
             THEN [index |-> (CHOOSE i \in found : \A j \in found : i <= j) - 1, err |-> ErrNil]
             ELSE [index |-> -1, err |-> ErrNoMatchingUser]

\* ComputeDeltas(alpha, beta, xI) and ComputeTValues(alpha, beta, h, u, v, aI)
\* with ComputeT3; alpha, beta and xI are scalars of the callee.
ComputeTValuesOnHeap(h, u, v, aI) ==
    <<  <<New("delta1"), "Mul", <<New("alpha"), New("xI")>>>>,
        <<New("delta2"), "Mul", <<New("beta"), New("xI")>>>>,
        <<New("T1"), "ScalarMult", <<New("alpha"), u>>>>,
        <<New("T2"), "ScalarMult", <<New("beta"), v>>>>,
        <<New("alphaPlusBeta"), "Add", <<New("alpha"), New("beta")>>>>,
        <<New("hAlphaBeta"), "ScalarMult", <<New("alphaPlusBeta"), h>>>>,
        <<New("T3"), "G1Add", <<New("hAlphaBeta"), aI>>>>  >>

\* ComputeRValues with ComputeR3, ComputeR4 and ComputeR5: minusRDelta1 :=
\* rDelta1 copies a scalar, and Neg() negates the copy.
ComputeRValuesOnHeap(T1, T2, T3, h, u, v, w, g2) ==
    <<  <<New("R1"), "ScalarMult", <<New("rAlpha"), u>>>>,
        <<New("R2"), "ScalarMult", <<New("rBeta"), v>>>>,
        <<New("rAlphaBeta"), "Add", <<New("rAlpha"), New("rBeta")>>>>,
        <<New("rAlphaBeta"), "Neg", <<>>>>,
        <<New("rDelta"), "Add", <<New("rDelta1"), New("rDelta2")>>>>,
        <<New("rDelta"), "Neg", <<>>>>,
        <<New("R3"), "ProdPair",
          << <<T3, h, h>>, <<g2, w, g2>>,
             <<New("rX"), New("rAlphaBeta"), New("rDelta")>> >> >>,
        <<New("T1rX"), "ScalarMult", <<New("rX"), T1>>>>,
        <<New("minusRDelta1"), "Set", <<New("rDelta1")>>>>,
        <<New("minusRDelta1"), "Neg", <<>>>>,
        <<New("uRDelta1"), "ScalarMult", <<New("minusRDelta1"), u>>>>,
        <<New("R4"), "G1Add", <<New("T1rX"), New("uRDelta1")>>>>,
        <<New("T2rX"), "ScalarMult", <<New("rX"), T2>>>>,
        <<New("minusRDelta2"), "Set", <<New("rDelta2")>>>>,
        <<New("minusRDelta2"), "Neg", <<>>>>,
        <<New("vRDelta2"), "ScalarMult", <<New("minusRDelta2"), v>>>>,
        <<New("R5"), "G1Add", <<New("T2rX"), New("vRDelta2")>>>>  >>

\* Sign up to its call of HashToScalar, when the random source gives alpha,
\* beta and scalars; userPrivateKey.X is a scalar of Sign's copy of the
\* struct.
SignOnHeap(xI, alpha, beta, scalars) ==
    <<  <<New("alpha"), "Value", alpha>>,
        <<New("beta"), "Value", beta>>,
        <<New("xI"), "Value", xI>>,
        <<New("rAlpha"), "Value", scalars[1]>>,
        <<New("rBeta"), "Value", scalars[2]>>,
        <<New("rX"), "Value", scalars[3]>>,
        <<New("rDelta1"), "Value", scalars[4]>>,
        <<New("rDelta2"), "Value", scalars[5]>>  >>
    \o ComputeTValuesOnHeap(Pointer("publicKey", "H"), Pointer("publicKey", "U"),
                            Pointer("publicKey", "V"), Pointer("userPrivateKey", "A"))
    \o ComputeRValuesOnHeap(New("T1"), New("T2"), New("T3"),
                            Pointer("publicKey", "H"), Pointer("publicKey", "U"),
                            Pointer("publicKey", "V"), Pointer("publicKey", "W"),
                            Pointer("publicKey", "G2"))

\* Sign from HashToScalar's result c on: ComputeSValues.
ComputeSValuesOnHeap(c) ==
    <<  <<New("c"), "Value", c>>,
        <<New("sAlpha"), "Mul", <<New("alpha"), New("c")>>>>,
        <<New("sAlpha"), "Add", <<New("sAlpha"), New("rAlpha")>>>>,
        <<New("sBeta"), "Mul", <<New("beta"), New("c")>>>>,
        <<New("sBeta"), "Add", <<New("sBeta"), New("rBeta")>>>>,
        <<New("sX"), "Mul", <<New("xI"), New("c")>>>>,
        <<New("sX"), "Add", <<New("sX"), New("rX")>>>>,
        <<New("sDelta1"), "Mul", <<New("delta1"), New("c")>>>>,
        <<New("sDelta1"), "Add", <<New("sDelta1"), New("rDelta1")>>>>,
        <<New("sDelta2"), "Mul", <<New("delta2"), New("c")>>>>,
        <<New("sDelta2"), "Add", <<New("sDelta2"), New("rDelta2")>>>>  >>

\* The Signature Sign returns: its pointers are T1, T2, T3 and the five
\* results of ComputeSValues.
SignatureOnHeap(heap) ==
    [T1 |-> heap.local.T1, T2 |-> heap.local.T2, T3 |-> heap.local.T3, C |-> heap.local.c,
     SAlpha |-> heap.local.sAlpha, SBeta |-> heap.local.sBeta, SX |-> heap.local.sX,
     SDelta1 |-> heap.local.sDelta1, SDelta2 |-> heap.local.sDelta2]

\* The longest list of calls kept in frame.
MaxCalls == 3

\* signature, err := sign.Sign(result.PublicKey, result.Users[i], m):
\* userPrivateKey.A is the pointer result.Users[i].A.
DoSignOnHeap ==
    /\ pc = "keyed"
    /\ \E i \in 1..Len(key.Users), m \in Messages, alpha \in ZpStar, beta \in ZpStar,
          scalars \in FewNonces :
         LET before == [publicKey |-> key.PublicKey, userPrivateKey |-> key.Users[i],
                        local |-> <<>>]
         IN  \E hashed \in {Run(before, SignOnHeap(key.Users[i].X, alpha, beta, scalars))},
                c \in Scalars :
                /\ HashToScalar(TranscriptOnHeap(hashed, m, New("T1"), New("T2"), New("T3")), c)
                /\ sha' = Hashed(TranscriptOnHeap(hashed, m, New("T1"), New("T2"), New("T3")), c)
                /\ \E heap \in {Run(hashed, ComputeSValuesOnHeap(c))} :
                      /\ sig' = SignatureOnHeap(heap)
                      /\ key' = [key EXCEPT !.PublicKey = heap.publicKey,
                                            !.Users[i] = heap.userPrivateKey]
                      /\ frame' = <<[op |-> "Sign", before |-> before, after |-> Caller(heap),
                                     result |-> SignatureOnHeap(heap)]>>
                /\ rnd' = [alpha |-> alpha, beta |-> beta, scalars |-> scalars]
                /\ signer' = i
                /\ msg' = m
    /\ pc' = "signed"
    /\ UNCHANGED <<first, vcall, ocall, kgvars, sret, hfirst, hcall, ncall, pcall, cred>>

\* valid, err := verify.Verify(result.PublicKey, msg, signature): what the
\* pointers of the arguments point to afterwards is what the caller holds.
DoVerifyOnHeap ==
    /\ pc = "signed"
    /\ frame # <<>>
    /\ Len(frame) < MaxCalls
    /\ \A k \in 1..Len(frame) : frame[k].op # "Open"
    /\ LET before == [publicKey |-> key.PublicKey, signature |-> sig, local |-> <<>>]
       IN  \E heap \in {Run(before, VerifyOnHeap(sig.C))}, c \in Scalars :
              LET bytes == TranscriptOnHeap(heap, msg, Pointer("signature", "T1"),
                                            Pointer("signature", "T2"),
                                            Pointer("signature", "T3"))
              IN  /\ HashToScalar(bytes, c)
                  /\ sha' = Hashed(bytes, c)
                  /\ sig' = heap.signature
                  /\ key' = [key EXCEPT !.PublicKey = heap.publicKey]
                  /\ frame' = Append(frame, [op |-> "Verify", before |-> before,
                                             after |-> Caller(heap),
                                             result |-> verifySignature(c, heap.signature.C)])
    /\ UNCHANGED <<pc, signer, msg, rnd, first, vcall, ocall, kgvars,
                   sret, hfirst, hcall, ncall, pcall, cred>>

\* signerIndex, err := open.Open(result.PublicKey, result.SecretManagerKey,
\*                               msg, signature, result.Users)
DoOpenOnHeap ==
    /\ pc = "signed"
    /\ frame # <<>>
    /\ Len(frame) < MaxCalls
    /\ \A k \in 1..Len(frame) : frame[k].op # "Open"
    /\ LET before == [publicKey |-> key.PublicKey, signature |-> sig,
                      users |-> key.Users, local |-> <<>>]
       IN  \E verified \in {Run(before, VerifyOnHeap(sig.C))}, c \in Scalars :
              LET bytes == TranscriptOnHeap(verified, msg, Pointer("signature", "T1"),
                                            Pointer("signature", "T2"),
                                            Pointer("signature", "T3"))
                  isValid == verifySignature(c, verified.signature.C)
              IN  /\ HashToScalar(bytes, c)
                  /\ sha' = Hashed(bytes, c)
                  /\ \E heap \in {IF isValid
                                  THEN Run(Caller(verified), RecoverOnHeap(key.SecretManagerKey))
                                  ELSE verified} :
                        /\ sig' = heap.signature
                        /\ key' = [key EXCEPT !.PublicKey = heap.publicKey,
                                              !.Users = heap.users]
                        /\ frame' = Append(frame, [op |-> "Open", before |-> before,
                                                   after |-> Caller(heap),
                                                   result |-> OpenOnHeap(heap, isValid)])
    /\ UNCHANGED <<pc, signer, msg, rnd, first, vcall, ocall, kgvars,
                   sret, hfirst, hcall, ncall, pcall, cred>>

\* KeyGen, Sign, and then Verify once or twice and Open on the signature
\* the caller holds.
NextFrame == DoKeyGen \/ DoSignOnHeap \/ DoVerifyOnHeap \/ DoOpenOnHeap

SpecFrame == Init /\ [][NextFrame]_vars

---------------------------------------------------------------------------
(* Properties *)

\* C1 (round trip): Verify on the message and the signature Sign returned
\* for a user of KeyGen returns true.
C1_RoundTrip ==
    (vcall # None /\ vcall.M = msg /\ vcall.signature = sig) => vcall.valid

\* C2 (openability): Open on the message and the signature Sign returned for
\* users[i], with the users of KeyGen, returns the index i and a nil error.
C2_Openability ==
    (ocall # None /\ ocall.m = msg /\ ocall.signature = sig /\ ocall.users = key.Users)
        => (ocall.index = signer - 1 /\ ocall.err = ErrNil)

\* C3 (SDH relation): every credential (A_i, x_i) KeyGen returns satisfies
\* e(A_i, w * g2^x_i) = e(g1, g2).
C3_SDHRelation ==
    pc # "start" =>
        \A i \in 1..Len(key.Users) :
            LET publicKey == key.PublicKey
                user == key.Users[i]
            IN  Pair(user.A, GAdd(publicKey.W, ScalarMult(user.X, publicKey.G2)))
                    = Pair(publicKey.G1, publicKey.G2)

\* C4 (u and v): every KeyGen output satisfies u^epsilon1 = h and
\* v^epsilon2 = h, whatever h is, the identity included.
C4_UVInvariant ==
    pc # "start" =>
        /\ ScalarMult(key.SecretManagerKey.Epsilon1, key.PublicKey.U) = key.PublicKey.H
        /\ ScalarMult(key.SecretManagerKey.Epsilon2, key.PublicKey.V) = key.PublicKey.H

\* KeyGen has returned a key whose h is not the identity and whose u and v
\* differ.
C4_Witness ==
    /\ pc = "keyed"
    /\ key.PublicKey.H # G1Identity
    /\ key.PublicKey.U # key.PublicKey.V

\* C5 (rejected signatures are not opened): when Verify rejects (M, sigma),
\* Open on (M, sigma) returns -1 and the verification-failed error; Open
\* returns no index >= 0 for a signature Verify rejects.
C5_RejectedNotOpened ==
    ocall # None =>
        LET bytes == VerifyTranscript(key.PublicKey, ocall.m, ocall.signature)
            rejected == ~Verify(key.PublicKey, ocall.m, ocall.signature, sha[bytes])
        IN  /\ rejected => (ocall.index = -1 /\ ocall.err = ErrVerificationFailed)
            /\ ocall.index >= 0 => ~rejected

\* Open has returned on a message other than the signed one that Verify
\* rejects, with a users list in which the recovered A has a match.
C5_Witness ==
    /\ ocall # None
    /\ ocall.m # msg
    /\ ~ocall.isValid
    /\ ocall.index = -1
    /\ Matches(RecoverUserPrivateKey(key.SecretManagerKey, ocall.signature), ocall.users) # {}

C11_NegativeRejected ==
    /\ (kpc = "panic") => (kloc.n >= 0)
    /\ (kret # None /\ kret.n < 0) =>
          (kret.err # ErrNil /\ kret.result = ZeroKeyGenResult)
    /\ (kret # None /\ kret.n = 0 /\ kret.err = ErrNil) =>
          /\ kret.result.Users = <<>>
          /\ ScalarMult(kret.result.SecretManagerKey.Epsilon1, kret.result.PublicKey.U)
                = kret.result.PublicKey.H
          /\ ScalarMult(kret.result.SecretManagerKey.Epsilon2, kret.result.PublicKey.V)
                = kret.result.PublicKey.H


\* C12 (nil arguments): a call of Sign, Verify or Open with a nil pointer
\* among its arguments does not panic and does not return a nil error.
C12_NilRejected ==
    (ncall # None) => (ncall.outcome # Panic /\ ncall.outcome.err # ErrNil)


\* C13 (failure of the random source): a step of KeyGen or Sign in which a
\* read of the random source fails ends the function, or the goroutine,
\* that made it, so that no draw is made again; KeyGen returns an error
\* exactly when a read has failed, Sign exactly when one of its draws
\* fails, and what is returned with an error is models.KeyGenResult{} or
\* models.Signature{}, with no key kept.
C13_FailureStep ==
    (rcall'.fails # rcall.fails) =>
        \/ /\ kpc \in {"h", "epsilon1", "epsilon2", "gamma"}
           /\ kpc' = "returned"
           /\ kret'.err \in {ErrRandomG1, ErrRandomScalar}
           /\ kret'.result = ZeroKeyGenResult
        \/ \E i \in 1..Len(wpc) : wpc[i] = "draw" /\ wpc'[i] = "send"
        \/ /\ pc = "keyed"
           /\ sret' # None
           /\ sret'.err = ErrRandomScalar
           /\ sret'.signature = ZeroSignature

C13_Returned ==
    /\ (kret # None) =>
          /\ (kret.err # ErrNil) <=> (rcall.fails > 0 /\ sret = None)
          /\ (kret.err # ErrNil) => (kret.result = ZeroKeyGenResult /\ key = None)
          /\ (kret.err = ErrNil) =>
                /\ key = kret.result
                /\ Len(key.Users) = kret.n
                /\ \A j \in 1..Len(key.Users) : key.Users[j] # ZeroUser
    /\ (sret # None) =>
          /\ (sret.err # ErrNil) <=> Fails(sret.draws)
          /\ (sret.err # ErrNil) => (sret.signature = ZeroSignature)
          /\ (sret.err = ErrNil) => (sret.signature # ZeroSignature)

C13_RngFailure == [][C13_FailureStep]_vars /\ []C13_Returned

\* Sign has returned the error of a failed draw, after a KeyGen that
\* returned a key.
C13_Witness ==
    /\ sret # None
    /\ sret.err = ErrRandomScalar
    /\ kret.err = ErrNil


\* C14 (RandomScalar): a call of RandomScalar that returns no error returns
\* a scalar of 1..Order-1: the first value rand.Int gave that is not zero,
\* every zero drawn before it being dropped and drawn again.
C14_NonZeroScalar ==
    (rcall.draws # <<>> /\ rcall.result.err = ErrNil) =>
        /\ rcall.result.scalar \in 1..(Order - 1)
        /\ rcall.result.scalar = rcall.draws[Len(rcall.draws)].value
        /\ \A j \in 1..(Len(rcall.draws) - 1) : rcall.draws[j].value = 0

\* RandomScalar has returned a scalar after rand.Int gave zero first.
C14_Witness ==
    /\ Len(rcall.draws) >= 2
    /\ ~rcall.draws[1].err
    /\ rcall.draws[1].value = 0
    /\ rcall.result.err = ErrNil


\* C15 (h is not the identity): the h of a public key KeyGen returns is
\* not the identity of G1.
C15_NonIdentity ==
    (kret # None /\ kret.err = ErrNil) => (kret.result.PublicKey.H # G1Identity)


RECURSIVE C16_InOrder(_)
\* t1 || ... || tn
C16_InOrder(t) == IF Len(t) = 0 THEN <<>> ELSE Head(t) \o C16_InOrder(Tail(t))

\* C16 (HashToScalar): the scalar HashToScalar returns lies in 0..Order-1,
\* and two calls whose inputs have the same in-order concatenation return
\* the same scalar.
C16_DigestOfConcatenation ==
    (hcall # None) =>
        /\ hcall.c \in 0..(Order - 1)
        /\ hfirst.c \in 0..(Order - 1)
        /\ (C16_InOrder(hfirst.inputs) = C16_InOrder(hcall.inputs)) => (hfirst.c = hcall.c)

\* Two calls on different lists of inputs with the same concatenation, of
\* two different bytes.
C16_Witness ==
    /\ hcall # None
    /\ hfirst.inputs # hcall.inputs
    /\ C16_InOrder(hfirst.inputs) = C16_InOrder(hcall.inputs)
    /\ C16_InOrder(hcall.inputs) = <<7, 8>>

C18_WriteStep ==
    /\ \A j \in 1..Len(uslice) :
          (j <= Len(uslice') /\ uslice'[j] # uslice[j]) =>
              /\ kpc \in {"loop", "wait"}
              /\ wpc[j] = "store"
              /\ wpc'[j] = "exit"
              /\ uslice'[j] = [A |-> ComputeAi(G1Generator, kloc.gamma, wx[j]), X |-> wx[j]]
    /\ (kpc \in {"range", "tuples"} /\ kpc' # "returned") => (uslice' = uslice)

C18_Returned ==
    /\ (kpc \in {"range", "tuples"}) => (\A i \in 1..Len(wpc) : wpc[i] = "done")
    /\ (kpc = "tuples" /\ rcall.fails = 0) =>
          /\ tret.err = ErrNil
          /\ Len(tret.users) = kloc.n
          /\ \A j \in 1..kloc.n :
                tret.users[j] = [A |-> ComputeAi(G1Generator, kloc.gamma, wx[j]), X |-> wx[j]]

C18_SlotPerWorker == [][C18_WriteStep]_vars /\ []C18_Returned

\* ComputeSDHTuples has returned the tuples of two goroutines that drew
\* different scalars.
C18_Witness ==
    /\ kpc = "tuples"
    /\ tret.err = ErrNil
    /\ kloc.n = 2
    /\ wx[1] # wx[2]
    /\ tret.users[1].X = wx[1]
    /\ tret.users[2].X = wx[2]

\* C19 (ComputeSDHTuples ends): a goroutine about to send on errChan finds
\* room in its buffer; wg.Wait returns only when every goroutine is done;
\* when a goroutine has failed, ComputeSDHTuples returns nil and an error;
\* and once the slice is made ComputeSDHTuples returns, whatever the order
\* of the steps and also when every goroutine fails.
C19_NeverBlocks ==
    /\ \A i \in 1..Len(wpc) : (wpc[i] = "send") => (Len(errChan) < kloc.n)
    /\ (kpc \in {"range", "tuples"}) => (wg = 0 /\ \A i \in 1..Len(wpc) : wpc[i] = "done")
    /\ (kpc = "tuples" /\ \E i \in 1..Len(wx) : wx[i] = 0) =>
          (tret.users = Nil /\ tret.err = ErrXI)

C19_Terminates ==
    /\ []C19_NeverBlocks
    /\ (kpc = "loop") ~> (kpc = "tuples")

\* ComputeSDHTuples has returned after each of two goroutines failed.
C19_Witness ==
    /\ kpc = "tuples"
    /\ kloc.n = 2
    /\ wx = <<0, 0>>
    /\ tret.users = Nil


\* C20 (gamma + x_i = 0): no tuple a goroutine stores in users, and no
\* user of a key KeyGen returns, has gamma + x = 0, that is w * g2^x equal
\* to the identity of G2.
C20_NoZeroDenominator ==
    /\ \A j \in 1..Len(uslice) :
          (uslice[j] # ZeroUser) => (ScalarAdd(kloc.gamma, uslice[j].X) # 0)
    /\ (kret # None /\ kret.err = ErrNil) =>
          \A j \in 1..Len(kret.result.Users) :
              GAdd(kret.result.PublicKey.W,
                   ScalarMult(kret.result.Users[j].X, G2Generator)) # 0

\* The credential (A, x) satisfies e(A, w * g2^x) = e(g1, g2) under publicKey.
SatisfiesSDH(publicKey, user) ==
    Pair(user.A, GAdd(publicKey.W, ScalarMult(user.X, publicKey.G2)))
        = Pair(publicKey.G1, publicKey.G2)

\* The commitments R1..R5 the signer hashed in the Sign call that returned sig.
C21_SignerRValues ==
    ComputeRValues(rnd.scalars[1], rnd.scalars[2], rnd.scalars[3], rnd.scalars[4],
                   rnd.scalars[5], sig.T1, sig.T2, sig.T3, key.PublicKey.H,
                   key.PublicKey.U, key.PublicKey.V, key.PublicKey.W, key.PublicKey.G2)

\* C21 (recomputed commitments): for a signature Sign returned for a
\* credential that satisfies the SDH relation under gpk, the R1'..R5' that
\* Verify recomputes are the signer's R1..R5, and R3' is the product
\* e(T3,g2)^sX * e(h,w)^-(sAlpha+sBeta) * e(h,g2)^-(sDelta1+sDelta2)
\* * e(g1,g2)^-c * e(T3,w)^c.
C21_RecomputedCommitments ==
    (pc = "signed" /\ SatisfiesSDH(key.PublicKey, key.Users[signer])) =>
        LET publicKey == key.PublicKey
            R == VerifyRValues(publicKey, sig)
        IN  /\ R = C21_SignerRValues
            /\ R.R3 = ( sig.T3 * publicKey.G2 * sig.SX
                        + publicKey.H * publicKey.W * (2 * Order - (sig.SAlpha + sig.SBeta))
                        + publicKey.H * publicKey.G2 * (2 * Order - (sig.SDelta1 + sig.SDelta2))
                        + publicKey.G1 * publicKey.G2 * (Order - sig.C)
                        + sig.T3 * publicKey.W * sig.C ) % Order

\* Sign has returned a signature with a challenge other than 0 for a
\* credential that satisfies the SDH relation, under a key whose h and w
\* are not trivial.
C21_Witness ==
    /\ pc = "signed"
    /\ SatisfiesSDH(key.PublicKey, key.Users[signer])
    /\ sig.C # 0
    /\ key.PublicKey.H # G1Identity
    /\ sig.T3 # G1Identity
    /\ C21_SignerRValues.R3 # 0

\* C22 (pairings and multi-pairing): on every input, Verify's computeR3 as
\* one ProdPair over ([T3,h,h,g1,T3], [g2,w,g2,g2,w], [sX, -(sAlpha+sBeta),
\* -(sDelta1+sDelta2), -c, c]) returns what its five pairings multiplied in
\* GT return, and Sign's ComputeR3 as one ProdPair returns what its three
\* pairings multiplied in GT return.
C22_SameR3 ==
    (pcall # None /\ pcall.fn \in {"computeR3", "ComputeR3"}) =>
        pcall.ret = pcall.pairings

\* computeR3 has been called with a challenge other than 0 and a T3, an h
\* and a w other than the identity, and has returned a value other than
\* the identity of GT.
C22_Witness ==
    /\ pcall # None
    /\ pcall.fn = "computeR3"
    /\ pcall.args[1] # G1Identity
    /\ pcall.args[5] # G1Identity
    /\ pcall.args[6] # 0
    /\ pcall.args[11] # 0
    /\ pcall.args[4] # 0
    /\ pcall.ret # 0

\* C23 (recovery): RecoverUserPrivateKey(gmsk, sigma) is
\* T3 * (T1^epsilon1 * T2^epsilon2)^-1, and on a signature that Sign built
\* from the credential (A, x) under a gpk with u^epsilon1 = v^epsilon2 = h it
\* is A, whatever alpha and beta the signer drew.
C23_RecoversA ==
    pc = "signed" =>
        LET gmsk == key.SecretManagerKey
            recoveredA == RecoverUserPrivateKey(gmsk, sig)
        IN  /\ recoveredA = (sig.T3 + Order * Order
                             - (gmsk.Epsilon1 * sig.T1 + gmsk.Epsilon2 * sig.T2)) % Order
            /\ ( /\ ScalarMult(gmsk.Epsilon1, key.PublicKey.U) = key.PublicKey.H
                 /\ ScalarMult(gmsk.Epsilon2, key.PublicKey.V) = key.PublicKey.H )
                  => recoveredA = key.Users[signer].A

\* Sign has returned a signature whose T1 and T2 are not the identity and
\* whose T3 is not A, under a key with epsilon1 # epsilon2.
C23_Witness ==
    /\ pc = "signed"
    /\ sig.T1 # G1Identity
    /\ sig.T2 # G1Identity
    /\ sig.T3 # key.Users[signer].A
    /\ key.SecretManagerKey.Epsilon1 # key.SecretManagerKey.Epsilon2
    /\ key.Users[signer].A # G1Identity

\* C24 (first match): when the signature verifies, Open returns the lowest
\* index i with users[i].A equal to the recovered A and a nil error, also
\* when several entries of users hold that A; when no entry holds it, Open
\* returns -1 and an error, so an index is returned only for an entry that
\* matches.
C24_FirstMatch ==
    (ocall # None /\ ocall.isValid) =>
        LET recoveredA == RecoverUserPrivateKey(key.SecretManagerKey, ocall.signature)
            users == ocall.users
            matching == {i \in 0..(Len(users) - 1) : users[i + 1].A = recoveredA}
        IN  /\ matching # {} =>
                  /\ ocall.index \in matching
                  /\ \A i \in matching : ocall.index <= i
                  /\ ocall.err = ErrNil
            /\ matching = {} => (ocall.index = -1 /\ ocall.err # ErrNil)

\* Open has returned index 1 for a valid signature and a users list whose
\* first entry does not match and whose second and third entries both do.
C24_Witness ==
    /\ ocall # None
    /\ ocall.isValid
    /\ Len(ocall.users) = 3
    /\ LET recoveredA == RecoverUserPrivateKey(key.SecretManagerKey, ocall.signature)
       IN  /\ ocall.users[1].A # recoveredA
           /\ ocall.users[2].A = recoveredA
           /\ ocall.users[3].A = recoveredA
    /\ ocall.index = 1
    /\ ocall.err = ErrNil

\* C25 (responses): for all scalars, c = 0 included, ComputeSValues returns
\* sAlpha = rAlpha + c*alpha, sBeta = rBeta + c*beta, sX = rX + c*x,
\* sDelta1 = rDelta1 + c*delta1 and sDelta2 = rDelta2 + c*delta2 modulo p;
\* ComputeDeltas returns delta1 = alpha*x and delta2 = beta*x modulo p, and
\* with these, as Sign passes them, sDelta1 = rDelta1 + c*alpha*x and
\* sDelta2 = rDelta2 + c*beta*x.
C25_Responses ==
    (pcall # None /\ pcall.fn = "ComputeSValues") =>
        LET alpha == pcall.args[1]
            beta == pcall.args[2]
            x == pcall.args[3]
            delta1 == pcall.args[4]
            delta2 == pcall.args[5]
            rAlpha == pcall.args[6]
            rBeta == pcall.args[7]
            rX == pcall.args[8]
            rDelta1 == pcall.args[9]
            rDelta2 == pcall.args[10]
            c == pcall.args[11]
        IN  /\ pcall.ret = [sAlpha |-> (rAlpha + c * alpha) % Order,
                            sBeta |-> (rBeta + c * beta) % Order,
                            sX |-> (rX + c * x) % Order,
                            sDelta1 |-> (rDelta1 + c * delta1) % Order,
                            sDelta2 |-> (rDelta2 + c * delta2) % Order]
            /\ pcall.deltas = [delta1 |-> (alpha * x) % Order, delta2 |-> (beta * x) % Order]
            /\ pcall.inSign = [sAlpha |-> (rAlpha + c * alpha) % Order,
                               sBeta |-> (rBeta + c * beta) % Order,
                               sX |-> (rX + c * x) % Order,
                               sDelta1 |-> (rDelta1 + c * alpha * x) % Order,
                               sDelta2 |-> (rDelta2 + c * beta * x) % Order]

\* ComputeSValues has been called with c = 0 and has returned the five r
\* values, which differ from what it returns on the same inputs with the
\* deltas of ComputeDeltas.
C25_Witness ==
    /\ pcall # None
    /\ pcall.fn = "ComputeSValues"
    /\ pcall.args[11] = 0
    /\ pcall.ret = [sAlpha |-> pcall.args[6], sBeta |-> pcall.args[7], sX |-> pcall.args[8],
                    sDelta1 |-> pcall.args[9], sDelta2 |-> pcall.args[10]]
    /\ pcall.args[4] # pcall.deltas.delta1
    /\ pcall.args[4] # pcall.args[5]

\* C26 (T values): for all scalars alpha and beta and all elements h, u, v
\* and A of G1, ComputeTValues returns T1 = u^alpha, T2 = v^beta and
\* T3 = A * h^(alpha + beta).
C26_TValues ==
    (pcall # None /\ pcall.fn = "ComputeTValues") =>
        LET alpha == pcall.args[1]
            beta == pcall.args[2]
            h == pcall.args[3]
            u == pcall.args[4]
            v == pcall.args[5]
            A == pcall.args[6]
        IN  pcall.ret = [T1 |-> (alpha * u) % Order,
                         T2 |-> (beta * v) % Order,
                         T3 |-> (A + (alpha + beta) * h) % Order]

\* ComputeTValues has been called with u # v and an A and an h other than
\* the identity, and has returned a T3 that is neither A nor h^(alpha + beta)
\* and a T1 and a T2 other than the identity.
C26_Witness ==
    /\ pcall # None
    /\ pcall.fn = "ComputeTValues"
    /\ pcall.args[4] # pcall.args[5]
    /\ pcall.args[6] # G1Identity
    /\ pcall.args[3] # G1Identity
    /\ pcall.ret.T3 # pcall.args[6]
    /\ pcall.ret.T3 # ScalarMult(ScalarAdd(pcall.args[1], pcall.args[2]), pcall.args[3])
    /\ pcall.ret.T1 # G1Identity
    /\ pcall.ret.T2 # G1Identity

\* C27 (acceptance): Verify(gpk, M, sigma) returns true exactly when the
\* challenge recomputed from (M, T1, T2, T3, R1', R2', R3', R4', R5') is
\* sigma.C, and its error is nil; a sigma whose T1, T2 or T3 is the identity
\* of G1 is accepted or rejected by that test alone.
C27_AcceptIffChallenge ==
    vcall # None =>
        LET verified == VerifyTranscript(key.PublicKey, vcall.M, vcall.signature)
        IN  /\ verified \in DOMAIN sha
            /\ vcall.valid <=> (sha[verified] = vcall.signature.C)
            /\ vcall.err = ErrNil

\* Verify has accepted a signature whose T1 is the identity of G1.
C27_Witness ==
    /\ vcall # None
    /\ vcall.valid
    /\ vcall.signature.T1 = G1Identity
    /\ vcall.err = ErrNil

\* C28 (inputs are not modified): after a call of Sign, Verify or Open, what
\* the pointers of its arguments point to (the T1, T2, T3, SAlpha, SBeta, SX,
\* SDelta1 and SDelta2 of the Signature, the elements of the PublicKey, the A
\* of the credential and of the users) and the values it was given (C, X)
\* are what they were before the call; so a second Verify returns what the
\* first returned, and Open after Verify returns what Open returns on the
\* signature as it was before Verify.
C28_InputsNotModified ==
    \A k \in 1..Len(frame) :
        /\ frame[k].after = frame[k].before
        /\ \A j \in 1..(k - 1) :
              /\ (frame[j].op = "Verify" /\ frame[k].op = "Verify")
                    => frame[k].result = frame[j].result
              /\ (frame[j].op = "Verify" /\ frame[k].op = "Open")
                    => frame[k].result = Open(frame[j].before.publicKey, key.SecretManagerKey,
                                              msg, frame[j].before.signature,
                                              frame[k].before.users, frame[j].result)

\* Sign, Verify and Open have been called in turn on a signature whose
\* SDelta1, SDelta2 and C are not 0; Verify has accepted it and Open has
\* returned the signer.
C28_Witness ==
    /\ Len(frame) = 3
    /\ frame[1].op = "Sign"
    /\ frame[2].op = "Verify"
    /\ frame[3].op = "Open"
    /\ frame[2].result
    /\ frame[3].result = [index |-> signer - 1, err |-> ErrNil]
    /\ frame[2].before.signature.SDelta1 # 0
    /\ frame[2].before.signature.SDelta2 # 0
    /\ frame[2].before.signature.C # 0

C30_Parse(bytes) ==
    LET n == Len(bytes) - 8
        at(k) == bytes[n + k]
    IN  <<SubSeq(bytes, 1, n), at(1), at(2), at(3),
          [R1 |-> at(4), R2 |-> at(5), R3 |-> at(6), R4 |-> at(7), R5 |-> at(8)]>>

\* C30 (injective transcript): the bytes M || enc(T1) || enc(T2) || enc(T3)
\* || enc(R1) || enc(R2) || enc(R3) || enc(R4) || enc(R5) that Sign and
\* Verify hash determine the tuple (M, T1, T2, T3, R1, R2, R3, R4, R5): with
\* encodings of fixed length the tuple is read back from the bytes, so two
\* different tuples never give the same bytes.
C30_Injective ==
    (pcall # None /\ pcall.fn = "Transcript") =>
        /\ Len(pcall.ret) = Len(pcall.args[1]) + 8
        /\ C30_Parse(pcall.ret) = pcall.args

\* The transcript has been built for a message that ends with the byte
\* that encodes T1, with T1, T2 and T3 all different.
C30_Witness ==
    /\ pcall # None
    /\ pcall.fn = "Transcript"
    /\ Len(pcall.args[1]) >= 1
    /\ pcall.args[1][Len(pcall.args[1])] = pcall.args[2]
    /\ pcall.args[2] # pcall.args[3]
    /\ pcall.args[3] # pcall.args[4]
    /\ pcall.args[2] # pcall.args[4]
    /\ pcall.args[5].R3 # 0

====
